---------------------------- MODULE Spec2Model ----------------------------
(***************************************************************************)
(* Phoenix Invoice App: the Shopify client (token cache, 401 retry,        *)
(* product cache, paged listings), the request handlers (single and batch  *)
(* conversion, download, generate-email) and the invoice service           *)
(* (draftOrderToInvoice, generateInvoiceNumber, the totals block).         *)
(*                                                                         *)
(* Eleven specifications share the module:                                 *)
(*   SpecInv     the invoice functions applied to bounded quotes           *)
(*   SpecConv    one create-invoice or batch-invoice request               *)
(*   SpecServer  several requests over one invoice directory               *)
(*   SpecClient  concurrent requests on the shared ShopifyService          *)
(*   SpecCatalog concurrent getProducts calls on the shared ShopifyService *)
(*   SpecList    the paged listings and GET /draft-orders                  *)
(*   SpecShared  requests and getProducts calls together, a new token at   *)
(*               every exchange                                            *)
(*   SpecLayout  the page layout of generatePDF                            *)
(*   SpecAssets  downloadImage and the asset directory                     *)
(*   SpecHooks   runs of registerWebhooks                                  *)
(*   SpecVerify  verifyWebhookSignature on bounded bodies and headers      *)
(***************************************************************************)
EXTENDS Integers, Sequences, FiniteSets, TLC

VARIABLES
  \* ---- invoice service (src/unnamed/part_008, src/unnamed/part_001)
  envPrefix,      \* process.env.INVOICE_PREFIX, an optional string
  invRev,         \* which revision of InvoiceService is loaded: "p008" | "p001"
  apiRev,         \* which revision of the router is loaded: "latest" | "older"
  draftOrder,     \* the quote last handed to draftOrderToInvoice (optional)
  invoice,        \* the Invoice record it returned (optional)
  numbers,        \* id -> invoice number, every generateInvoiceNumber result so far
  totals,         \* the totals block generatePDF drew for the invoice (optional)
  doc,            \* the page layout generatePDF is making: cursor and blocks placed
  assets,         \* the cached image file, the download in flight, past calls
  \* ---- request handlers (src/routes/api.js, src/server.js)
  hpc,            \* where the handler stands: "idle", the awaited step, "responded"
  hReq,           \* the request being handled (optional)
  hIdx,           \* batch: index of the identifier being processed
  hQuote,         \* the draft order fetched for the current identifier (optional)
  hInvoice,       \* invoiceData of the current identifier (optional)
  hLookups,       \* single: product-image lookups still to make
  hOrder,         \* single: the order returned by the complete step (optional)
  hLog,           \* the remote calls and renders issued by this request, in order
  hResults,       \* batch: the result entries pushed so far
  hResponse,      \* the response sent (optional)
  files,          \* the invoice directory: invoice number -> file content
  served,         \* requests answered so far
  quota,          \* requests this behaviour may start
  \* ---- Shopify client (src/services/shopify.js)
  crev,           \* which ShopifyService of the file is loaded: "r1" | "r2"
  cops,           \* the client operations the callers use in this behaviour
  expiresIn,      \* r2: expires_in of the platform's token responses, seconds
  now,            \* Date.now(), milliseconds since the service was constructed
  ticks,          \* clock advances so far
  catalog,        \* the products a page of the platform's catalog holds now
  accessToken,    \* this.accessToken (0: null, k: the token of exchange k)
  tokenExpiry,    \* this.tokenExpiry (0: null)
  faults,         \* calls the platform has failed so far (401 included)
  exchanges,      \* the tokens the platform issued; whose expiry tokenExpiry is
  productsCache,  \* this.productsCache (optional list)
  productsCacheExpiry, \* this.productsCacheExpiry (0: null)
  call,           \* per caller: the client operation it awaits or has made
  done,           \* the getProducts calls that have returned or thrown, in order
  webhooks,       \* the platform: topic -> number of registrations it holds
  reg,            \* per run of registerWebhooks: where it stands, what it has
  verified,       \* the last verifyWebhookSignature call and its outcome
  \* ---- listings (getDraftOrders, getProducts paging, GET /draft-orders)
  lpc,            \* where the listing stands: "idle", "page1", "page2", "done"
  lOp,            \* the listing called: "getDraftOrders" | "getProducts" | "route"
  lLimit,         \* route: req.query.limit (optional string)
  lPages,         \* the page responses received by this call, in order
  lOut,           \* what the call returned or sent (optional)
  lCalls          \* listings started so far

invVars == <<envPrefix, invRev, apiRev, draftOrder, invoice, numbers, totals,
             doc, assets>>
convVars == <<hpc, hReq, hIdx, hQuote, hInvoice, hLookups, hOrder, hLog,
              hResults, hResponse, files, served, quota>>

listVars == <<lpc, lOp, lLimit, lPages, lOut, lCalls>>

clientVars == <<crev, cops, expiresIn, now, ticks, catalog, accessToken,
                tokenExpiry, faults, exchanges, productsCache,
                productsCacheExpiry, call, done, webhooks, reg, verified>>

vars == <<envPrefix, invRev, apiRev, draftOrder, invoice, numbers, totals, doc,
          assets,
          hpc, hReq, hIdx, hQuote, hInvoice, hLookups, hOrder, hLog,
          hResults, hResponse, files, served, quota,
          crev, cops, expiresIn, now, ticks, catalog, accessToken,
          tokenExpiry, faults, exchanges, productsCache,
          productsCacheExpiry, call, done, webhooks, reg, verified,
          lpc, lOp, lLimit, lPages, lOut, lCalls>>

----------------------------------------------------------------------------
(* JavaScript values.  An optional value (undefined / null) is a sequence   *)
(* of length 0 or 1; a string is a sequence of one-character strings.       *)

None == <<>>
Some(x) == <<x>>
IsSome(o) == Len(o) = 1
Val(o) == o[1]

Digits == <<"0", "1", "2", "3", "4", "5", "6", "7", "8", "9">>
IsDigit(c) == \E d \in 1..10 : Digits[d] = c
DigitVal(c) == (CHOOSE d \in 1..10 : Digits[d] = c) - 1

\* String(n) for a non-negative integer n: its decimal digits, no padding.
RECURSIVE NatToString(_)
NatToString(n) ==
  IF n < 10 THEN <<Digits[n + 1]>>
  ELSE NatToString(n \div 10) \o <<Digits[(n % 10) + 1]>>

\* The platform's money format: dollars "." two cent digits ("25.00").
MoneyString(cents) ==
  NatToString(cents \div 100) \o <<".">>
    \o <<Digits[((cents % 100) \div 10) + 1], Digits[(cents % 10) + 1]>>

\* A JavaScript number as parseFloat yields it: NaN, or an amount in cents.
NaN == [nan |-> TRUE, v |-> 0]
Num(v) == [nan |-> FALSE, v |-> v]

\* The value of the leading run of digits of s from position i (acc so far).
RECURSIVE DigitRun(_, _, _)
DigitRun(s, i, acc) ==
  IF i <= Len(s) /\ IsDigit(s[i])
    THEN DigitRun(s, i + 1, acc * 10 + DigitVal(s[i]))
    ELSE <<acc, i>>

\* The two-place (cents) value of the fraction digits of s from position i:
\* the first digit counts tens of cents, the second cents.
FractionCents(s, i) ==
  (IF i <= Len(s) /\ IsDigit(s[i]) THEN 10 * DigitVal(s[i]) ELSE 0)
    + (IF i + 1 <= Len(s) /\ IsDigit(s[i + 1]) THEN DigitVal(s[i + 1]) ELSE 0)

\* parseFloat(x): undefined and strings with no leading digit give NaN;
\* otherwise the longest numeric prefix, here kept in cents.
ParseFloat(o) ==
  IF ~IsSome(o) THEN NaN
  ELSE LET s == Val(o) IN
    IF Len(s) = 0 \/ ~IsDigit(s[1]) THEN NaN
    ELSE LET r == DigitRun(s, 1, 0) IN
      IF r[2] <= Len(s) /\ s[r[2]] = "."
        THEN Num(r[1] * 100 + FractionCents(s, r[2] + 1))
        ELSE Num(r[1] * 100)

\* x || d on numbers: NaN and 0 are falsy.
OrElse(x, d) == IF x.nan \/ x.v = 0 THEN d ELSE x.v

----------------------------------------------------------------------------
(* Bounds of the invoice inputs *)

MaxAmount == 2          \* amounts are 0, AmountStep, .., MaxAmount * AmountStep cents
MaxId == 12             \* quote identifiers 1..MaxId

AmountStep == 25 * 100 + 50      \* 25.50, so that the cents digits matter

LargeAmount == 1234 * 100 + 50   \* 1,234.50, so that the thousands separator shows

Amounts == {k * AmountStep : k \in 0..MaxAmount}
OptMoney == {None} \cup {Some(MoneyString(c)) : c \in Amounts}
QuoteIds == 1..MaxId

\* The quotes handed to draftOrderToInvoice: the money fields of a draft order.
Quotes ==
  [ id : {1, MaxId},
    subtotal_price : OptMoney,
    total_price : OptMoney,
    total_tax : {None, Some(MoneyString(AmountStep))},
    total_discounts : {None, Some(MoneyString(0)), Some(MoneyString(AmountStep))},
    shipping_line : {None, Some([price |-> Some(MoneyString(0))]),
                     Some([price |-> Some(MoneyString(AmountStep))]),
                     Some([price |-> Some(MoneyString(LargeAmount))])},
    total_shipping_price_set : {None, Some(MoneyString(AmountStep))},
    applied_discount : {None, Some([amount |-> Some(MoneyString(AmountStep))])} ]

----------------------------------------------------------------------------
(* InvoiceService *)

DefaultPrefix == <<"I", "N", "V", "-">>

\* mutant: the number keeps only the last digit of the identifier
GenerateInvoiceNumberLastDigit(prefix, draftOrderId) ==
  (IF IsSome(prefix) /\ Len(Val(prefix)) > 0 THEN Val(prefix) ELSE DefaultPrefix)
    \o NatToString(draftOrderId % 10)

\* generateInvoiceNumber: `${process.env.INVOICE_PREFIX || 'INV-'}${draftOrderId}`
generateInvoiceNumber(prefix, draftOrderId) ==
  (IF IsSome(prefix) /\ Len(Val(prefix)) > 0 THEN Val(prefix) ELSE DefaultPrefix)
    \o NatToString(draftOrderId)

\* generatePDF's filename: `${invoice.invoiceNumber}.pdf`
PdfFilename(invoiceNumber) == invoiceNumber \o <<".", "p", "d", "f">>

TaxRatePercent == 6     \* parseFloat(process.env.TAX_RATE) || 0.06, unset

\* part_008: shipping from shipping_line, else total_shipping_price_set
ShippingCost008(q) ==
  IF IsSome(q.shipping_line)
    THEN OrElse(ParseFloat(Val(q.shipping_line).price), 0)
    ELSE IF IsSome(q.total_shipping_price_set)
      THEN OrElse(ParseFloat(q.total_shipping_price_set), 0)
      ELSE 0

\* part_008: discount from applied_discount, else total_discounts
DiscountAmount008(q) ==
  IF IsSome(q.applied_discount)
    THEN OrElse(ParseFloat(Val(q.applied_discount).amount), 0)
    ELSE IF IsSome(q.total_discounts)
      THEN OrElse(ParseFloat(q.total_discounts), 0)
      ELSE 0

\* part_008 draftOrderToInvoice: the platform's total_price wins over the sum,
\* and taxAmount is the literal 0.
draftOrderToInvoice008(prefix, q) ==
  LET subtotal == OrElse(ParseFloat(q.subtotal_price), 0)
      shippingCost == ShippingCost008(q)
      discountAmount == DiscountAmount008(q)
      total == OrElse(ParseFloat(q.total_price),
                      subtotal + shippingCost - discountAmount)
  IN [ invoiceNumber |-> generateInvoiceNumber(prefix, q.id),
       draftOrderId |-> q.id,
       subtotal |-> subtotal,
       shippingCost |-> shippingCost,
       discount |-> discountAmount,
       taxAmount |-> 0,
       total |-> total ]

\* part_001 draftOrderToInvoice: the total is always the sum of its parts.
draftOrderToInvoice001(prefix, q) ==
  LET subtotal == OrElse(ParseFloat(q.subtotal_price), 0)
      shippingCost == OrElse(ParseFloat(q.total_shipping_price_set), 0)
      taxAmount == OrElse(ParseFloat(q.total_tax),
                          (subtotal * TaxRatePercent) \div 100)
      total == subtotal + taxAmount + shippingCost
                 - OrElse(ParseFloat(q.total_discounts), 0)
  IN [ invoiceNumber |-> generateInvoiceNumber(prefix, q.id),
       draftOrderId |-> q.id,
       subtotal |-> subtotal,
       shippingCost |-> shippingCost,
       discount |-> OrElse(ParseFloat(q.total_discounts), 0),
       taxAmount |-> taxAmount,
       total |-> total ]

draftOrderToInvoice(rev, prefix, q) ==
  IF rev = "p008" THEN draftOrderToInvoice008(prefix, q)
                  ELSE draftOrderToInvoice001(prefix, q)

\* The digits s with a comma before every group of three counted from the
\* right: replace(/\B(?=(\d{3})+(?!\d))/g, ',')
RECURSIVE GroupThousands(_)
GroupThousands(s) ==
  IF Len(s) <= 3 THEN s
  ELSE GroupThousands(SubSeq(s, 1, Len(s) - 3)) \o <<",">> \o SubSeq(s, Len(s) - 2, Len(s))

\* formatCurrency: '$' + amount.toFixed(2), thousands separated; a negative
\* amount keeps its sign behind the '$'.
formatCurrency(cents) ==
  LET a == IF cents < 0 THEN 0 - cents ELSE cents IN
    <<"$">> \o (IF cents < 0 THEN <<"-">> ELSE <<>>)
      \o GroupThousands(NatToString(a \div 100)) \o <<".">>
      \o <<Digits[((a % 100) \div 10) + 1], Digits[(a % 10) + 1]>>

Free == <<"F", "r", "e", "e">>

\* mutant: the shipping amount is always formatted, a zero one too
ShippingTextAlwaysAmount(shippingCost) == formatCurrency(shippingCost)

\* invoice.shippingCost > 0 ? this.formatCurrency(invoice.shippingCost) : 'Free'
ShippingText(shippingCost) ==
  IF shippingCost > 0 THEN formatCurrency(shippingCost) ELSE Free

Line(label, text) == [label |-> label, text |-> text]

\* part_008 totals block: subtotal, discount if any, shipping, tax if any, total.
TotalsLines008(inv) ==
  <<Line("Subtotal", formatCurrency(inv.subtotal))>>
    \o (IF inv.discount > 0
          THEN <<Line("Discount", <<"-">> \o formatCurrency(inv.discount))>>
          ELSE <<>>)
    \o <<Line("Shipping", ShippingText(inv.shippingCost))>>
    \o (IF inv.taxAmount > 0
          THEN <<Line("Tax", formatCurrency(inv.taxAmount))>>
          ELSE <<>>)
    \o <<Line("Total", formatCurrency(inv.total))>>

\* part_001 totals block: subtotal, shipping, tax and total, always.
TotalsLines001(inv) ==
  << Line("Subtotal", formatCurrency(inv.subtotal)),
     Line("Shipping", ShippingText(inv.shippingCost)),
     Line("Tax", formatCurrency(inv.taxAmount)),
     Line("Total", formatCurrency(inv.total)) >>

TotalsLines(rev, inv) ==
  IF rev = "p008" THEN TotalsLines008(inv) ELSE TotalsLines001(inv)

----------------------------------------------------------------------------
(* Request handlers: POST /draft-orders/:id/create-invoice and            *)
(* POST /draft-orders/batch-invoice, with the error middleware.            *)

NumQuotes == 2          \* quote identifiers 1..NumQuotes reach the handlers
MaxBatch == 2           \* longest draftOrderIds list
MaxLookups == 1         \* line items of a quote that need a product-image lookup

ConvIds == 1..NumQuotes

RECURSIVE SeqsUpTo(_, _)
SeqsUpTo(S, n) ==
  IF n = 0 THEN {<<>>}
  ELSE LET shorter == SeqsUpTo(S, n - 1)
       IN shorter \cup {Append(l, x) : l \in {m \in shorter : Len(m) = n - 1}, x \in S}

\* What the platform may return as draft_order for identifier id.
PlatformQuote(id, k, hasEmail, lookups) ==
  [ id |-> id,
    subtotal_price |-> Some(MoneyString(k * AmountStep)),
    total_price |-> Some(MoneyString(k * AmountStep)),
    total_tax |-> None,
    total_discounts |-> None,
    shipping_line |-> None,
    total_shipping_price_set |-> None,
    applied_discount |-> None,
    email |-> IF hasEmail THEN Some(<<"a", "@", "b">>) ELSE None,
    lookups |-> lookups ]

PlatformQuotes(id) ==
  {PlatformQuote(id, k, e, n) : k \in 1..2, e \in BOOLEAN, n \in 0..MaxLookups}

\* One entry of the log: a remote call or render, and how it ended.
Issue(log, step, idx, id) ==
  Append(log, [step |-> step, idx |-> idx, id |-> id, out |-> "pending"])
Settle(log, out) == [log EXCEPT ![Len(log)].out = out]

\* generatePDF, synchronous part: fs.createWriteStream(filepath) creates or
\* truncates the file named by the invoice number before anything is drawn.
OpenPdf(fs, inv) ==
  [n \in DOMAIN fs \cup {PdfFilename(inv.invoiceNumber)} |->
     IF n = PdfFilename(inv.invoiceNumber)
       THEN [finished |-> FALSE, inv |-> inv, header |-> "none"]
       ELSE fs[n]]

\* How a download started by downloadImage may go: the image arrives; the
\* request fails (no connection); the server answers with something that is
\* no image (an error page, a redirect to it); the connection is closed
\* after the response began.
Downloads == {"image", "refused", "notimage", "closed"}

\* downloadImage: resolves with the file path once the file is written, with
\* null on a request error, and not at all when the response stops before
\* its end (neither 'finish' nor the request's 'error' comes).
downloadImage(outcome) ==
  [ settled |-> outcome # "closed",
    path |-> IF outcome \in {"image", "notimage"} THEN Some("asset") ELSE None,
    usable |-> outcome = "image" ]

\* generatePDF's logo block (part_001: the product image): the image when
\* doc.image takes the file, the text fallback when there is no file or
\* doc.image throws.
HeaderWith(download) ==
  IF IsSome(download.path) /\ download.usable THEN "image" ELSE "text"

\* generatePDF, writeStream 'finish': the document is complete on disk.
FinishPdf(fs, inv) ==
  [fs EXCEPT ![PdfFilename(inv.invoiceNumber)].finished = TRUE]

Response(status, kind) ==
  [ status |-> status, kind |-> kind, error |-> None, invoice |-> None,
    pdf |-> None, downloadUrl |-> None, order |-> None, emailSent |-> None,
    to |-> None, body |-> None,
    processed |-> None, successful |-> None, failed |-> None, results |-> None ]

\* mutant: the middleware forgets res.status and answers 200
ErrorMiddlewareOkStatus(message) ==
  [Response(200, "error") EXCEPT !.error = Some(message)]

\* server.js error middleware: res.status(err.status || 500).json({error: err.message})
ErrorMiddleware(message) ==
  [Response(500, "error") EXCEPT !.error = Some(message)]

\* mutant: the handler forgets res.status(404)
NotFoundResponseOkStatus ==
  [Response(200, "notfound") EXCEPT !.error = Some("Draft order not found")]

NotFoundResponse ==
  [Response(404, "notfound") EXCEPT !.error = Some("Draft order not found")]

BadRequestResponse ==
  [Response(400, "badrequest") EXCEPT !.error = Some("draftOrderIds array is required")]

\* res.json({success: true, invoice, pdf: {filename, downloadUrl}, order, emailSent: sendEmail})
InvoiceResponse(req, inv, order) ==
  [Response(200, "invoice") EXCEPT
     !.invoice = Some(inv),
     !.pdf = Some(PdfFilename(inv.invoiceNumber)),
     !.downloadUrl = Some(inv.invoiceNumber),
     !.order = order,
     !.emailSent = Some(req.sendEmail)]

NumProcs == 2           \* callers that may await the client at the same time

Procs == 1..NumProcs

\* The topics registerWebhooks subscribes to, in the order of its loop.
Topics == <<"draft_orders/create", "draft_orders/update", "orders/create",
            "orders/paid">>
TopicSet == {Topics[i] : i \in 1..Len(Topics)}

\* The two callers of registerWebhooks: the app.listen callback and
\* POST /webhooks/register.
Runs == {"startup", "route"}

\* A run that has not been called.
IdleRun == [pc |-> "idle", existing |-> {}, k |-> 0, results |-> <<>>,
            after |-> FALSE]

NoWebhooks == [t \in TopicSet |-> 0]
NoRuns == [r \in Runs |-> IdleRun]

\* No token exchange has completed: no token was issued, no expiry stored.
NoExchange == [tokens |-> {}, stored |-> 0]

\* A caller that awaits nothing and has made no request yet.
IdleCall ==
  [pc |-> "idle", op |-> "none", page |-> 0, retry |-> TRUE, exp |-> 0,
   hist |-> <<>>, out |-> "none", win |-> FALSE, all |-> <<>>, start |-> 0,
   seen |-> 0, stale |-> FALSE, net |-> FALSE, fetches |-> 0, tok |-> 0]

\* The service as its constructor leaves it, with no caller.
ClientIdle ==
  /\ crev = "r1"
  /\ cops = {}
  /\ expiresIn = 0
  /\ now = 0
  /\ ticks = 0
  /\ catalog = <<>>
  /\ accessToken = 0
  /\ tokenExpiry = 0
  /\ faults = 0
  /\ exchanges = NoExchange
  /\ productsCache = None
  /\ productsCacheExpiry = 0
  /\ call = [p \in Procs |-> IdleCall]
  /\ done = <<>>
  /\ webhooks = NoWebhooks
  /\ reg = NoRuns
  /\ verified = None

\* No listing has been called.
ListIdle ==
  /\ lpc = "idle"
  /\ lOp = "none"
  /\ lLimit = None
  /\ lPages = <<>>
  /\ lOut = None
  /\ lCalls = 0

\* generatePDF has not been called.
NoDoc == [pc |-> "none", items |-> 0, discount |-> FALSE, tax |-> FALSE,
          i |-> 0, y |-> 0, page |-> 0, placed |-> <<>>]

\* An empty asset directory, nothing in flight, no render so far.
NoAssets == [file |-> "none", wire |-> "none", log |-> <<>>]

InvIdle ==
  /\ envPrefix = None
  /\ invRev = "p008"
  /\ apiRev = "latest"
  /\ draftOrder = None
  /\ invoice = None
  /\ numbers = <<>>
  /\ totals = None
  /\ doc = NoDoc
  /\ assets = NoAssets

ConvIdle ==
  /\ hpc = "idle"
  /\ hReq = None
  /\ hIdx = 0
  /\ hQuote = None
  /\ hInvoice = None
  /\ hLookups = 0
  /\ hOrder = None
  /\ hLog = <<>>
  /\ hResults = <<>>
  /\ hResponse = None
  /\ files = <<>>
  /\ served = 0
  /\ quota = 0

\* One request, arriving at a server whose invoice directory is still empty
\* (in SpecConv the image downloads of the render succeed; SpecServer draws
\* every outcome of them).
InitConv ==
  /\ InvIdle
  /\ hpc = "idle"
  /\ hReq = None
  /\ hIdx = 0
  /\ hQuote = None
  /\ hInvoice = None
  /\ hLookups = 0
  /\ hOrder = None
  /\ hLog = <<>>
  /\ hResults = <<>>
  /\ hResponse = None
  /\ files = <<>>
  /\ served = 0
  /\ quota = 1
  /\ ClientIdle
  /\ ListIdle

CanStart == hpc \in {"idle", "responded"} /\ served < quota

\* The handler answers: the response is sent and the request is over.
Answer(resp, log) ==
  /\ hResponse' = Some(resp)
  /\ hpc' = "responded"
  /\ hLog' = log
  /\ served' = served + 1
  /\ quota' = quota

\* ---- single conversion (api.js 194-273)

StartSingle(id, sendEmail, completeOrder) ==
  /\ CanStart
  /\ hReq' = Some([kind |-> "single", ids |-> <<id>>,
                   sendEmail |-> sendEmail, completeOrder |-> completeOrder])
  /\ hpc' = "fetch"
  /\ hIdx' = 1
  /\ hLog' = Issue(<<>>, "fetch", 1, id)
  /\ hQuote' = None /\ hInvoice' = None /\ hLookups' = 0 /\ hOrder' = None
  /\ hResults' = <<>> /\ hResponse' = None
  /\ UNCHANGED <<files, served, quota>>
  /\ UNCHANGED <<invVars, clientVars, listVars>>

IsSingle == IsSome(hReq) /\ Val(hReq).kind = "single"
CurId == Val(hReq).ids[hIdx]

\* getDraftOrder rejects: catch -> next(error) -> error middleware.
SingleFetchThrows ==
  /\ IsSingle /\ hpc = "fetch"
  /\ Answer(ErrorMiddleware("fetch failed"), Settle(hLog, "fail"))
  /\ UNCHANGED <<hReq, hIdx, hQuote, hInvoice, hLookups, hOrder, hResults, files>>
  /\ UNCHANGED <<invVars, clientVars, listVars>>

\* the platform answers without a draft_order: 404.
SingleFetchEmpty ==
  /\ IsSingle /\ hpc = "fetch"
  /\ Answer(NotFoundResponse, Settle(hLog, "empty"))
  /\ UNCHANGED <<hReq, hIdx, hQuote, hInvoice, hLookups, hOrder, hResults, files>>
  /\ UNCHANGED <<invVars, clientVars, listVars>>

\* the quote arrives: invoiceData is derived; then the image lookups, or the
\* render starts at once (and opens the file).
SingleFetchOk(q) ==
  /\ IsSingle /\ hpc = "fetch"
  /\ q.id = CurId
  /\ LET inv == draftOrderToInvoice(invRev, envPrefix, q) IN
       /\ hQuote' = Some(q)
       /\ hInvoice' = Some(inv)
       /\ hLookups' = q.lookups
       /\ IF q.lookups > 0
            THEN /\ hpc' = "image"
                 /\ hLog' = Issue(Settle(hLog, "ok"), "image", hIdx, q.id)
                 /\ files' = files
            ELSE /\ hpc' = "download"
                 /\ hLog' = Issue(Settle(hLog, "ok"), "render", hIdx, q.id)
                 /\ files' = OpenPdf(files, inv)
  /\ UNCHANGED <<hReq, hIdx, hOrder, hResults, hResponse, served, quota>>
  /\ UNCHANGED <<invVars, clientVars, listVars>>

\* getProduct settles either way (its failure is caught and logged).
SingleImageDone(out) ==
  /\ IsSingle /\ hpc = "image"
  /\ hLookups' = hLookups - 1
  /\ IF hLookups > 1
       THEN /\ hLog' = Issue(Settle(hLog, out), "image", hIdx, CurId)
            /\ UNCHANGED <<hpc, files>>
       ELSE /\ hpc' = "download"
            /\ hLog' = Issue(Settle(hLog, out), "render", hIdx, CurId)
            /\ files' = OpenPdf(files, Val(hInvoice))
  /\ UNCHANGED <<hReq, hIdx, hQuote, hInvoice, hOrder, hResults, hResponse, served, quota>>
  /\ UNCHANGED <<invVars, clientVars, listVars>>

\* The step that follows a finished complete step (or a skipped one).
SingleAfterComplete(req, q) ==
  IF req.sendEmail /\ IsSome(q.email) THEN "email" ELSE "respond"

\* The step that follows a successful render.
SingleAfterRender(req, q) ==
  IF req.completeOrder THEN "complete" ELSE SingleAfterComplete(req, q)

\* Move on to `step`, or answer with the render result.
SingleGoto(step, log, order) ==
  IF step = "respond"
    THEN Answer(InvoiceResponse(Val(hReq), Val(hInvoice), order), log)
    ELSE /\ hpc' = step
         /\ hLog' = Issue(log, step, hIdx, CurId)
         /\ UNCHANGED <<hResponse, served, quota>>

\* mutant: a render failure is swallowed and the handler goes on
SingleRenderFailsContinues ==
  /\ IsSingle /\ hpc = "render"
  /\ SingleGoto(SingleAfterRender(Val(hReq), Val(hQuote)), Settle(hLog, "fail"), None)
  /\ UNCHANGED <<hReq, hIdx, hQuote, hInvoice, hLookups, hOrder, hResults, files>>
  /\ UNCHANGED <<invVars, clientVars, listVars>>

\* generatePDF, after the file was opened: the image download it awaits
\* settles and the header is drawn, or the download never settles and
\* generatePDF stays at its await.
DownloadDone(outcome) ==
  /\ hpc = "download"
  /\ LET d == downloadImage(outcome) IN
       IF d.settled
         THEN /\ hpc' = "render"
              /\ files' = [files EXCEPT
                             ![PdfFilename(Val(hInvoice).invoiceNumber)].header =
                               HeaderWith(d)]
         ELSE /\ hpc' = "stalled"
              /\ files' = files
  /\ UNCHANGED <<hReq, hIdx, hQuote, hInvoice, hLookups, hOrder, hLog, hResults,
                 hResponse, served, quota>>
  /\ UNCHANGED <<invVars, clientVars, listVars>>

\* generatePDF rejects: catch -> next(error).
SingleRenderFails ==
  /\ IsSingle /\ hpc = "render"
  /\ Answer(ErrorMiddleware("render failed"), Settle(hLog, "fail"))
  /\ UNCHANGED <<hReq, hIdx, hQuote, hInvoice, hLookups, hOrder, hResults, files>>
  /\ UNCHANGED <<invVars, clientVars, listVars>>

SingleRenderOk ==
  /\ IsSingle /\ hpc = "render"
  /\ files' = FinishPdf(files, Val(hInvoice))
  /\ SingleGoto(SingleAfterRender(Val(hReq), Val(hQuote)), Settle(hLog, "ok"), None)
  /\ UNCHANGED <<hReq, hIdx, hQuote, hInvoice, hLookups, hOrder, hResults>>
  /\ UNCHANGED <<invVars, clientVars, listVars>>

\* completeDraftOrder rejects: the awaited call throws inside the handler's
\* only try block, so catch -> next(error).
SingleCompleteFails ==
  /\ IsSingle /\ hpc = "complete"
  /\ Answer(ErrorMiddleware("complete failed"), Settle(hLog, "fail"))
  /\ UNCHANGED <<hReq, hIdx, hQuote, hInvoice, hLookups, hOrder, hResults, files>>
  /\ UNCHANGED <<invVars, clientVars, listVars>>

\* completeDraftOrder resolves; with an order_id the metafield write follows.
SingleCompleteOk(orderId) ==
  /\ IsSingle /\ hpc = "complete"
  /\ hOrder' = Some([order_id |-> orderId])
  /\ SingleGoto(IF IsSome(orderId) THEN "metafield"
                ELSE SingleAfterComplete(Val(hReq), Val(hQuote)),
                Settle(hLog, "ok"), Some([order_id |-> orderId]))
  /\ UNCHANGED <<hReq, hIdx, hQuote, hInvoice, hLookups, hResults, files>>
  /\ UNCHANGED <<invVars, clientVars, listVars>>

SingleMetafieldFails ==
  /\ IsSingle /\ hpc = "metafield"
  /\ Answer(ErrorMiddleware("metafield failed"), Settle(hLog, "fail"))
  /\ UNCHANGED <<hReq, hIdx, hQuote, hInvoice, hLookups, hOrder, hResults, files>>
  /\ UNCHANGED <<invVars, clientVars, listVars>>

SingleMetafieldOk ==
  /\ IsSingle /\ hpc = "metafield"
  /\ SingleGoto(SingleAfterComplete(Val(hReq), Val(hQuote)), Settle(hLog, "ok"), hOrder)
  /\ UNCHANGED <<hReq, hIdx, hQuote, hInvoice, hLookups, hOrder, hResults, files>>
  /\ UNCHANGED <<invVars, clientVars, listVars>>

SingleEmailFails ==
  /\ IsSingle /\ hpc = "email"
  /\ Answer(ErrorMiddleware("email failed"), Settle(hLog, "fail"))
  /\ UNCHANGED <<hReq, hIdx, hQuote, hInvoice, hLookups, hOrder, hResults, files>>
  /\ UNCHANGED <<invVars, clientVars, listVars>>

SingleEmailOk ==
  /\ IsSingle /\ hpc = "email"
  /\ Answer(InvoiceResponse(Val(hReq), Val(hInvoice), hOrder), Settle(hLog, "ok"))
  /\ UNCHANGED <<hReq, hIdx, hQuote, hInvoice, hLookups, hOrder, hResults, files>>
  /\ UNCHANGED <<invVars, clientVars, listVars>>

\* ---- batch conversion (api.js 405-460)

IsBatch == IsSome(hReq) /\ Val(hReq).kind = "batch"

\* results.push({id, success: true, invoiceNumber, total})
SuccessEntry(id, inv) ==
  [ id |-> id, success |-> TRUE, invoiceNumber |-> Some(inv.invoiceNumber),
    total |-> Some(inv.total), error |-> None ]

\* results.push({id, success: false, error})
FailEntry(id, message) ==
  [ id |-> id, success |-> FALSE, invoiceNumber |-> None,
    total |-> None, error |-> Some(message) ]

\* mutant: the counts are taken over distinct identifiers, not over entries
CountWhereDistinctIds(results, flag) ==
  Cardinality({results[i].id : i \in {j \in 1..Len(results) : results[j].success = flag}})

CountWhere(results, flag) ==
  Cardinality({i \in 1..Len(results) : results[i].success = flag})

\* res.json({success: true, processed, successful, failed, results})
BatchResponse(results) ==
  [Response(200, "batch") EXCEPT
     !.processed = Some(Len(results)),
     !.successful = Some(CountWhere(results, TRUE)),
     !.failed = Some(CountWhere(results, FALSE)),
     !.results = Some(results)]

\* draftOrderIds missing or not an array: 400, nothing is processed.
StartBatchBad ==
  /\ CanStart
  /\ hReq' = Some([kind |-> "batch", ids |-> <<>>,
                   sendEmail |-> FALSE, completeOrder |-> FALSE])
  /\ hIdx' = 0
  /\ hQuote' = None /\ hInvoice' = None /\ hLookups' = 0 /\ hOrder' = None
  /\ hResults' = <<>>
  /\ Answer(BadRequestResponse, <<>>)
  /\ UNCHANGED files
  /\ UNCHANGED <<invVars, clientVars, listVars>>

\* mutant: the fetches of all identifiers are issued at once (a fan-out)
StartBatchFanOut(ids, sendEmails, completeOrders) ==
  /\ CanStart
  /\ hReq' = Some([kind |-> "batch", ids |-> ids,
                   sendEmail |-> sendEmails, completeOrder |-> completeOrders])
  /\ hQuote' = None /\ hInvoice' = None /\ hLookups' = 0 /\ hOrder' = None
  /\ hResults' = <<>>
  /\ IF Len(ids) = 0
       THEN /\ hIdx' = 0
            /\ Answer(BatchResponse(<<>>), <<>>)
       ELSE /\ hIdx' = 1
            /\ hpc' = "fetch"
            /\ hLog' = [i \in 1..Len(ids) |->
                          [step |-> "fetch", idx |-> Len(ids) + 1 - i,
                           id |-> ids[Len(ids) + 1 - i], out |-> "pending"]]
            /\ hResponse' = None
            /\ UNCHANGED <<served, quota>>
  /\ UNCHANGED files
  /\ UNCHANGED <<invVars, clientVars, listVars>>

\* The loop starts: the fetch of the first identifier is issued.
StartBatch(ids, sendEmails, completeOrders) ==
  /\ CanStart
  /\ hReq' = Some([kind |-> "batch", ids |-> ids,
                   sendEmail |-> sendEmails, completeOrder |-> completeOrders])
  /\ hQuote' = None /\ hInvoice' = None /\ hLookups' = 0 /\ hOrder' = None
  /\ hResults' = <<>>
  /\ IF Len(ids) = 0
       THEN /\ hIdx' = 0
            /\ Answer(BatchResponse(<<>>), <<>>)
       ELSE /\ hIdx' = 1
            /\ hpc' = "fetch"
            /\ hLog' = Issue(<<>>, "fetch", 1, ids[1])
            /\ hResponse' = None
            /\ UNCHANGED <<served, quota>>
  /\ UNCHANGED files
  /\ UNCHANGED <<invVars, clientVars, listVars>>

\* mutant: a failed identifier ends the loop (the catch is outside the for)
BatchNextAbortOnFailure(entry, log) ==
  /\ hResults' = Append(hResults, entry)
  /\ hQuote' = None /\ hInvoice' = None
  /\ IF hIdx < Len(Val(hReq).ids) /\ entry.success
       THEN /\ hIdx' = hIdx + 1
            /\ hpc' = "fetch"
            /\ hLog' = Issue(log, "fetch", hIdx + 1, Val(hReq).ids[hIdx + 1])
            /\ UNCHANGED <<hResponse, served, quota>>
       ELSE /\ hIdx' = hIdx
            /\ Answer(BatchResponse(Append(hResults, entry)), log)

\* The entry of the current identifier is pushed; the loop goes on with the
\* next identifier, or the response is sent after the last one.
BatchNext(entry, log) ==
  /\ hResults' = Append(hResults, entry)
  /\ hQuote' = None /\ hInvoice' = None
  /\ IF hIdx < Len(Val(hReq).ids)
       THEN /\ hIdx' = hIdx + 1
            /\ hpc' = "fetch"
            /\ hLog' = Issue(log, "fetch", hIdx + 1, Val(hReq).ids[hIdx + 1])
            /\ UNCHANGED <<hResponse, served, quota>>
       ELSE /\ hIdx' = hIdx
            /\ Answer(BatchResponse(Append(hResults, entry)), log)

\* Move on to `step` of the current identifier, or push its success entry.
BatchGoto(step, log) ==
  IF step = "push"
    THEN BatchNext(SuccessEntry(CurId, Val(hInvoice)), log)
    ELSE /\ hpc' = step
         /\ hLog' = Issue(log, step, hIdx, CurId)
         /\ UNCHANGED <<hIdx, hResults, hResponse, served, quota, hQuote, hInvoice>>

BatchAfterComplete(req, q) ==
  IF req.sendEmail /\ IsSome(q.email) THEN "email" ELSE "push"

BatchAfterRender(req, q) ==
  IF req.completeOrder THEN "complete" ELSE BatchAfterComplete(req, q)

\* any awaited step of the current identifier rejects: the inner catch pushes
\* {id, success: false, error: err.message}.
BatchStepFails(step) ==
  /\ IsBatch /\ hpc = step
  /\ BatchNext(FailEntry(CurId, step), Settle(hLog, "fail"))
  /\ UNCHANGED <<hReq, hLookups, hOrder, files>>
  /\ UNCHANGED <<invVars, clientVars, listVars>>

\* the platform answers without a draft_order: 'Not found', continue.
BatchFetchEmpty ==
  /\ IsBatch /\ hpc = "fetch"
  /\ BatchNext(FailEntry(CurId, "Not found"), Settle(hLog, "empty"))
  /\ UNCHANGED <<hReq, hLookups, hOrder, files>>
  /\ UNCHANGED <<invVars, clientVars, listVars>>

\* the quote arrives: invoiceData is derived and the render starts.
BatchFetchOk(q) ==
  /\ IsBatch /\ hpc = "fetch"
  /\ q.id = CurId
  /\ q.lookups = 0
  /\ LET inv == draftOrderToInvoice(invRev, envPrefix, q) IN
       /\ hQuote' = Some(q)
       /\ hInvoice' = Some(inv)
       /\ files' = OpenPdf(files, inv)
  /\ hpc' = "download"
  /\ hLog' = Issue(Settle(hLog, "ok"), "render", hIdx, CurId)
  /\ UNCHANGED <<hReq, hIdx, hLookups, hOrder, hResults, hResponse, served, quota>>
  /\ UNCHANGED <<invVars, clientVars, listVars>>

BatchRenderOk ==
  /\ IsBatch /\ hpc = "render"
  /\ files' = FinishPdf(files, Val(hInvoice))
  /\ BatchGoto(BatchAfterRender(Val(hReq), Val(hQuote)), Settle(hLog, "ok"))
  /\ UNCHANGED <<hReq, hLookups, hOrder>>
  /\ UNCHANGED <<invVars, clientVars, listVars>>

BatchCompleteOk ==
  /\ IsBatch /\ hpc = "complete"
  /\ BatchGoto(BatchAfterComplete(Val(hReq), Val(hQuote)), Settle(hLog, "ok"))
  /\ UNCHANGED <<hReq, hLookups, hOrder, files>>
  /\ UNCHANGED <<invVars, clientVars, listVars>>

BatchEmailOk ==
  /\ IsBatch /\ hpc = "email"
  /\ BatchNext(SuccessEntry(CurId, Val(hInvoice)), Settle(hLog, "ok"))
  /\ UNCHANGED <<hReq, hLookups, hOrder, files>>
  /\ UNCHANGED <<invVars, clientVars, listVars>>

NextConv ==
  \/ \E id \in ConvIds, e \in BOOLEAN, c \in BOOLEAN : StartSingle(id, e, c)
  \/ SingleFetchThrows
  \/ SingleFetchEmpty
  \/ \E id \in ConvIds : \E q \in PlatformQuotes(id) : SingleFetchOk(q)
  \/ \E out \in {"ok", "fail"} : SingleImageDone(out)
  \/ DownloadDone("image")
  \/ SingleRenderFails
  \/ SingleRenderOk
  \/ SingleCompleteFails
  \/ \E orderId \in {None, Some(1)} : SingleCompleteOk(orderId)
  \/ SingleMetafieldFails
  \/ SingleMetafieldOk
  \/ SingleEmailFails
  \/ SingleEmailOk
  \/ StartBatchBad
  \/ \E ids \in SeqsUpTo(ConvIds, MaxBatch), e \in BOOLEAN, c \in BOOLEAN :
       StartBatch(ids, e, c)
  \/ \E step \in {"fetch", "render", "complete", "email"} : BatchStepFails(step)
  \/ BatchFetchEmpty
  \/ \E id \in ConvIds : \E q \in PlatformQuotes(id) : BatchFetchOk(q)
  \/ BatchRenderOk
  \/ BatchCompleteOk
  \/ BatchEmailOk

SpecConv == InitConv /\ [][NextConv]_vars

----------------------------------------------------------------------------
(* SpecServer: several requests, one after the other, over one invoice   *)
(* directory: conversions, downloads and generate-email.                  *)

MaxRequests == 2        \* requests one server run answers

ServerIds == {1}        \* the quote that is converted, again and again

\* mutant: the lookup forgets the '.pdf' extension
GetInvoiceNoExtension(fs, invoiceNumber) ==
  IF invoiceNumber \in DOMAIN fs THEN Some(invoiceNumber) ELSE None

\* InvoiceService.getInvoice: the path when the file exists, else null.
getInvoice(fs, invoiceNumber) ==
  IF PdfFilename(invoiceNumber) \in DOMAIN fs
    THEN Some(PdfFilename(invoiceNumber))
    ELSE None

InvoiceNotFoundResponse ==
  [Response(404, "notfound") EXCEPT !.error = Some("Invoice not found")]

\* res.download(filepath)
DownloadResponse(filepath) ==
  [Response(200, "download") EXCEPT !.pdf = Some(filepath)]

\* GET /invoices/:invoiceNumber/download, for the number of quote id.
Download(id) ==
  /\ CanStart
  /\ hReq' = Some([kind |-> "download", ids |-> <<id>>,
                   sendEmail |-> FALSE, completeOrder |-> FALSE])
  /\ hIdx' = 1
  /\ hQuote' = None /\ hInvoice' = None /\ hLookups' = 0 /\ hOrder' = None
  /\ hResults' = <<>>
  /\ LET filepath == getInvoice(files, generateInvoiceNumber(envPrefix, id)) IN
       IF IsSome(filepath)
         THEN Answer(DownloadResponse(Val(filepath)), <<>>)
         ELSE Answer(InvoiceNotFoundResponse, <<>>)
  /\ UNCHANGED files
  /\ UNCHANGED <<invVars, clientVars, listVars>>


\* ---- generate-email (api.js 278-372; older revision 994-1224)

\* What the provider's HTTP call may come to: the call rejected, or a 2xx
\* body `data` with an optional content list of blocks with an optional text.
ProviderReplies ==
  { [rejected |-> TRUE, content |-> None],
    [rejected |-> FALSE, content |-> None],
    [rejected |-> FALSE, content |-> Some(<<>>)],
    [rejected |-> FALSE, content |-> Some(<<[text |-> None]>>)],
    [rejected |-> FALSE, content |-> Some(<<[text |-> Some(<<>>)]>>)],
    [rejected |-> FALSE, content |-> Some(<<[text |-> Some(<<"D", "e", "a", "r">>)]>>)] }

\* Whether `await axios.post(..)` followed by response.data.content[0].text
\* (older revision: response.data.choices[0].message.content) throws: the
\* call rejected, or the list is missing or empty.
ProviderThrows(reply) ==
  \/ reply.rejected
  \/ ~IsSome(reply.content)
  \/ Len(Val(reply.content)) = 0

\* The value of response.data.content[0].text when nothing was thrown; a
\* block without text gives undefined.
ProviderText(reply) == Val(reply.content)[1].text

\* draftOrder.name || `#${draftOrder.id}` (the quotes here carry no name)
OrderName(q) == <<"#">> \o NatToString(q.id)

\* parseFloat(draftOrder.total_price || 0).toFixed(2)
TotalPrice(q) ==
  LET t == ParseFloat(q.total_price) IN MoneyString(IF t.nan THEN 0 ELSE t.v)

\* generateTemplateEmail: fixed text around the name, the order name and the
\* total (kept as the pieces that are concatenated).
generateTemplateEmail(name, orderName, total) ==
  <<"Hi ">> \o name \o <<" your quote ">> \o orderName \o <<" total is $">> \o total

CustomerName(q) == <<"Valued Customer">>

TemplateFor(q) == generateTemplateEmail(CustomerName(q), OrderName(q), TotalPrice(q))

\* res.json({success: true, to, subject, body: emailBody, orderName, customerName})
EmailResponse(q, body) ==
  [Response(200, "email") EXCEPT
     !.to = Some(IF IsSome(q.email) THEN Val(q.email) ELSE <<>>),
     !.body = body]

IsEmail == IsSome(hReq) /\ Val(hReq).kind = "email"

StartEmail(id) ==
  /\ CanStart
  /\ hReq' = Some([kind |-> "email", ids |-> <<id>>,
                   sendEmail |-> FALSE, completeOrder |-> FALSE])
  /\ hpc' = "fetch"
  /\ hIdx' = 1
  /\ hLog' = Issue(<<>>, "fetch", 1, id)
  /\ hQuote' = None /\ hInvoice' = None /\ hLookups' = 0 /\ hOrder' = None
  /\ hResults' = <<>> /\ hResponse' = None
  /\ UNCHANGED <<files, served, quota>>
  /\ UNCHANGED <<invVars, clientVars, listVars>>

\* getDraftOrder rejects: catch -> next(error).
EmailFetchThrows ==
  /\ IsEmail /\ hpc = "fetch"
  /\ Answer(ErrorMiddleware("fetch failed"), Settle(hLog, "fail"))
  /\ UNCHANGED <<hReq, hIdx, hQuote, hInvoice, hLookups, hOrder, hResults, files>>
  /\ UNCHANGED <<invVars, clientVars, listVars>>

\* the platform answers without a draft_order: 404.
EmailFetchEmpty ==
  /\ IsEmail /\ hpc = "fetch"
  /\ Answer(NotFoundResponse, Settle(hLog, "empty"))
  /\ UNCHANGED <<hReq, hIdx, hQuote, hInvoice, hLookups, hOrder, hResults, files>>
  /\ UNCHANGED <<invVars, clientVars, listVars>>

\* After the quote (and, in the older revision, the call-transcript lookup):
\* with a provider key the provider is called, else the template is sent.
EmailCompose(q, log, configured) ==
  IF configured
    THEN /\ hpc' = "provider"
         /\ hLog' = Issue(log, "provider", hIdx, CurId)
         /\ UNCHANGED <<hResponse, served, quota>>
    ELSE Answer(EmailResponse(q, Some(TemplateFor(q))), log)

\* the quote arrives; the older revision looks the customer's phone number up
\* in the call-tracking service first when the quote has one.
EmailFetchOk(q, hasPhone, configured) ==
  /\ IsEmail /\ hpc = "fetch"
  /\ q.id = CurId
  /\ q.lookups = 0
  /\ hQuote' = Some(q)
  /\ IF apiRev = "older" /\ hasPhone
       THEN /\ hpc' = "transcript"
            /\ hLog' = Issue(Settle(hLog, "ok"), "transcript", hIdx, CurId)
            /\ UNCHANGED <<hResponse, served, quota>>
       ELSE EmailCompose(q, Settle(hLog, "ok"), configured)
  /\ UNCHANGED <<hReq, hIdx, hInvoice, hLookups, hOrder, hResults, files>>
  /\ UNCHANGED <<invVars, clientVars, listVars>>

\* the call-transcript lookup settles either way (its failure is caught).
EmailTranscriptDone(out, configured) ==
  /\ IsEmail /\ hpc = "transcript"
  /\ EmailCompose(Val(hQuote), Settle(hLog, out), configured)
  /\ UNCHANGED <<hReq, hIdx, hQuote, hInvoice, hLookups, hOrder, hResults, files>>
  /\ UNCHANGED <<invVars, clientVars, listVars>>

\* the provider call settles: whatever is thrown inside the inner try gives
\* the template; otherwise the body is the text read from the reply.
EmailProviderDone(reply) ==
  /\ IsEmail /\ hpc = "provider"
  /\ IF ProviderThrows(reply)
       THEN Answer(EmailResponse(Val(hQuote), Some(TemplateFor(Val(hQuote)))),
                   Settle(hLog, "fail"))
       ELSE Answer(EmailResponse(Val(hQuote), ProviderText(reply)), Settle(hLog, "ok"))
  /\ UNCHANGED <<hReq, hIdx, hQuote, hInvoice, hLookups, hOrder, hResults, files>>
  /\ UNCHANGED <<invVars, clientVars, listVars>>

InitServer ==
  /\ envPrefix = None
  /\ invRev = "p008"
  /\ apiRev \in {"latest", "older"}
  /\ draftOrder = None
  /\ invoice = None
  /\ numbers = <<>>
  /\ totals = None
  /\ doc = NoDoc
  /\ assets = NoAssets
  /\ hpc = "idle"
  /\ hReq = None
  /\ hIdx = 0
  /\ hQuote = None
  /\ hInvoice = None
  /\ hLookups = 0
  /\ hOrder = None
  /\ hLog = <<>>
  /\ hResults = <<>>
  /\ hResponse = None
  /\ files = <<>>
  /\ served = 0
  /\ quota = MaxRequests
  /\ ClientIdle
  /\ ListIdle

NextServer ==
  \/ \E id \in ServerIds, e \in BOOLEAN, c \in BOOLEAN : StartSingle(id, e, c)
  \/ SingleFetchThrows
  \/ SingleFetchEmpty
  \/ \E id \in ServerIds : \E q \in PlatformQuotes(id) : SingleFetchOk(q)
  \/ \E out \in {"ok", "fail"} : SingleImageDone(out)
  \/ \E outcome \in Downloads : DownloadDone(outcome)
  \/ SingleRenderFails
  \/ SingleRenderOk
  \/ SingleCompleteFails
  \/ \E orderId \in {None, Some(1)} : SingleCompleteOk(orderId)
  \/ SingleMetafieldFails
  \/ SingleMetafieldOk
  \/ SingleEmailFails
  \/ SingleEmailOk
  \/ StartBatchBad
  \/ \E ids \in SeqsUpTo(ServerIds, MaxBatch), e \in BOOLEAN, c \in BOOLEAN :
       StartBatch(ids, e, c)
  \/ \E step \in {"fetch", "render", "complete", "email"} : BatchStepFails(step)
  \/ BatchFetchEmpty
  \/ \E id \in ServerIds : \E q \in PlatformQuotes(id) : BatchFetchOk(q)
  \/ BatchRenderOk
  \/ BatchCompleteOk
  \/ BatchEmailOk
  \/ \E id \in ConvIds : Download(id)
  \/ \E id \in ServerIds : StartEmail(id)
  \/ EmailFetchThrows
  \/ EmailFetchEmpty
  \/ \E id \in ServerIds : \E q \in PlatformQuotes(id) :
       \E hasPhone \in BOOLEAN, configured \in BOOLEAN :
         EmailFetchOk(q, hasPhone, configured)
  \/ \E out \in {"ok", "fail"}, configured \in BOOLEAN :
       EmailTranscriptDone(out, configured)
  \/ \E reply \in ProviderReplies : EmailProviderDone(reply)

SpecServer == InitServer /\ [][NextServer]_vars

----------------------------------------------------------------------------
(* SpecInv: the invoice functions applied to bounded inputs *)

InitInv ==
  /\ envPrefix \in {None, Some(<<>>), Some(<<"Q", "1">>)}
  /\ invRev \in {"p008", "p001"}
  /\ apiRev = "latest"
  /\ draftOrder = None
  /\ invoice = None
  /\ numbers = <<>>
  /\ totals = None
  /\ doc = NoDoc
  /\ assets = NoAssets
  /\ ConvIdle
  /\ ClientIdle
  /\ ListIdle

\* A caller derives the invoice of quote q (one derivation per behaviour).
Convert(q) ==
  /\ draftOrder = None
  /\ numbers = <<>>
  /\ totals = None
  /\ draftOrder' = Some(q)
  /\ invoice' = Some(draftOrderToInvoice(invRev, envPrefix, q))
  /\ UNCHANGED <<assets, envPrefix, invRev, apiRev, numbers, totals, doc>>
  /\ UNCHANGED <<convVars, clientVars, listVars>>

\* A caller derives the invoice number of identifier id (again, if asked before).
Number(id) ==
  /\ draftOrder = None
  /\ Cardinality(DOMAIN numbers \cup {id}) <= 2
  /\ numbers' = [i \in DOMAIN numbers \cup {id} |->
                   IF i = id THEN generateInvoiceNumber(envPrefix, id)
                             ELSE numbers[i]]
  /\ UNCHANGED <<assets, envPrefix, invRev, apiRev,
                 draftOrder, invoice, totals, doc>>
  /\ UNCHANGED <<convVars, clientVars, listVars>>

\* generatePDF draws the totals block of the invoice derived.
RenderTotals ==
  /\ IsSome(invoice)
  /\ totals = None
  /\ totals' = Some(TotalsLines(invRev, Val(invoice)))
  /\ UNCHANGED <<assets, envPrefix, invRev, apiRev,
                 draftOrder, invoice, numbers, doc>>
  /\ UNCHANGED <<convVars, clientVars, listVars>>

NextInv ==
  \/ \E q \in Quotes : Convert(q)
  \/ RenderTotals
  \/ \E id \in QuoteIds : Number(id)

SpecInv == InitInv /\ [][NextInv]_vars

----------------------------------------------------------------------------
(* SpecLayout: the coordinates generatePDF (part_008) hands to the PDF      *)
(* library.  The cursor y is a local variable of generatePDF; every block   *)
(* is drawn at a coordinate computed from it.                               *)

MaxItems == 24          \* line items of an invoice: enough for a third page

PageHeight == 792       \* size: 'LETTER' is 612 by 792 points
TableTop == 250         \* y of the table header
HeaderHeight == 22      \* the rows begin below the table header
RowHeight == 40
RowLimit == 600         \* the cursor beyond which a new page is started
TopMargin == 50         \* the cursor at the top of a new page
StripLimit == 700       \* the payment strip is drawn above this cursor only
NumNotes == 3           \* invoiceNotes of draftOrderToInvoice

\* One thing drawn: what it is (for a row, of which line item), on which
\* page, at which y.
Placed(block, item, page, y) ==
  [block |-> block, item |-> item, page |-> page, y |-> y]

\* mutant: a new page is started only when the cursor has left the page
NeedsNewPageAtPageEnd(y) == y > PageHeight

\* The test made after each row: `if (y > 600)`.
NeedsNewPage(y) == y > RowLimit

\* The totals block drawn from cursor y: the y of each line, and the cursor
\* at the Total line.
TotalsYs(y, discount, tax) ==
  LET sub == y + 15
      dis == IF discount THEN sub + 18 ELSE sub
      shi == dis + 18
      tx  == IF tax THEN shi + 18 ELSE shi
  IN [lines |-> <<[block |-> "subtotal", y |-> sub]>>
                 \o (IF discount THEN <<[block |-> "discount", y |-> dis]>> ELSE <<>>)
                 \o <<[block |-> "shipping", y |-> shi]>>
                 \o (IF tax THEN <<[block |-> "tax", y |-> tx]>> ELSE <<>>)
                 \o <<[block |-> "total", y |-> tx + 25]>>,
      y |-> tx + 25]

\* The notes block from the cursor y of the Total line: the box, one line per
\* note, the signoff and its message; the cursor is left at the message.
NotesYs(y) ==
  LET box == y + 45
      first == box + 25
      from == first + 12 * NumNotes + 5
  IN [lines |-> <<[block |-> "notes", y |-> box]>>
                 \o [k \in 1..NumNotes |-> [block |-> "note", y |-> first + 12 * (k - 1)]]
                 \o <<[block |-> "signoff", y |-> from],
                      [block |-> "message", y |-> from + 14]>>,
      y |-> from + 14]

\* The QR code, the payment strip and the footer from the cursor y of the
\* message.  The strip is drawn only `if (y < 700)`.
ClosingYs(y) ==
  LET strip == y + 50
      foot == strip + 35
  IN <<[block |-> "qr", y |-> y - 70], [block |-> "payOnline", y |-> y - 70 + 75]>>
     \o (IF strip < StripLimit THEN <<[block |-> "strip", y |-> strip]>> ELSE <<>>)
     \o <<[block |-> "footer", y |-> foot], [block |-> "footer2", y |-> foot + 12]>>

\* Everything drawn after the line-item table, from cursor y.
AfterTable(y, discount, tax) ==
  LET t == TotalsYs(y, discount, tax)
      n == NotesYs(t.y)
  IN <<[block |-> "rule", y |-> y]>> \o t.lines \o n.lines \o ClosingYs(n.y)

\* generatePDF is called for an invoice with n line items: the header, the
\* address boxes and the table header are drawn at fixed coordinates and
\* the cursor stands below the table header.
StartPdf(n, discount, tax) ==
  /\ doc.pc = "none"
  /\ doc' = [pc |-> "table", items |-> n, discount |-> discount, tax |-> tax,
             i |-> 0, y |-> TableTop + HeaderHeight, page |-> 1,
             placed |-> <<Placed("tableHeader", 0, 1, TableTop)>>]
  /\ UNCHANGED <<assets, envPrefix, invRev, apiRev,
                 draftOrder, invoice, numbers, totals>>
  /\ UNCHANGED <<convVars, clientVars, listVars>>

\* One pass of the loop over invoice.lineItems: the row is drawn at the
\* cursor, the cursor advances, and a new page is started if it must be.
DrawRow ==
  /\ doc.pc = "table"
  /\ doc.i < doc.items
  /\ LET next == doc.y + RowHeight IN
       doc' = [doc EXCEPT
                 !.i = @ + 1,
                 !.placed = Append(@, Placed("row", doc.i + 1, doc.page, doc.y)),
                 !.y = IF NeedsNewPage(next) THEN TopMargin ELSE next,
                 !.page = IF NeedsNewPage(next) THEN @ + 1 ELSE @]
  /\ UNCHANGED <<assets, envPrefix, invRev, apiRev,
                 draftOrder, invoice, numbers, totals>>
  /\ UNCHANGED <<convVars, clientVars, listVars>>

\* After the last row: the rule, the totals, the notes, the QR code, the
\* payment strip and the footer, all on the page the table ended on.
DrawRest ==
  /\ doc.pc = "table"
  /\ doc.i = doc.items
  /\ LET rest == AfterTable(doc.y, doc.discount, doc.tax) IN
       doc' = [doc EXCEPT
                 !.pc = "done",
                 !.placed = @ \o [k \in 1..Len(rest) |->
                                    Placed(rest[k].block, 0, doc.page, rest[k].y)]]
  /\ UNCHANGED <<assets, envPrefix, invRev, apiRev,
                 draftOrder, invoice, numbers, totals>>
  /\ UNCHANGED <<convVars, clientVars, listVars>>

InitLayout ==
  /\ InvIdle
  /\ ConvIdle
  /\ ClientIdle
  /\ ListIdle

NextLayout ==
  \/ \E n \in 0..MaxItems, discount \in BOOLEAN, tax \in BOOLEAN :
       StartPdf(n, discount, tax)
  \/ DrawRow
  \/ DrawRest

SpecLayout == InitLayout /\ [][NextLayout]_vars

----------------------------------------------------------------------------
(* SpecAssets: downloadImage (part_008 44-77, part_001 328-363) and the     *)
(* renders that call it for one image key.  assets.file is what the file    *)
(* under the key holds ("none": no file), assets.wire the download in       *)
(* flight, assets.log what each finished call resolved with and which file  *)
(* content the render was handed.  The write stream's file is opened        *)
(* locally when the stream is made, long before a response can arrive, so   *)
(* the file exists, empty, from the call on.                                *)

MaxRenders == 3         \* calls of downloadImage in one behaviour

\* What a response can be: the image with status 200, a 301/302 redirect,
\* any other status with its own body, or no response at all.
Responses == {"image", "redirect", "page", "error"}

\* The entry a finished call leaves: whether it had a url, whether it asked
\* the network, what it resolved with, and the file content the caller got
\* ("placeholder" when it resolved with null), with the state of the wire.
Resolved(url, net, path, file, wire) ==
  [url |-> url, net |-> net, path |-> path,
   used |-> IF path THEN file ELSE "placeholder", wire |-> wire]

\* downloadImage without a url resolves with null; with the file there it
\* resolves with the path, whatever the file holds (existsSync, line 52).
DownloadHit(url) ==
  /\ Len(assets.log) < MaxRenders
  /\ ~url \/ assets.file # "none"
  /\ assets' = [assets EXCEPT !.log = Append(@, Resolved(url, FALSE, url, assets.file, assets.wire))]
  /\ UNCHANGED <<envPrefix, invRev, apiRev, draftOrder, invoice, numbers,
                 totals, doc>>
  /\ UNCHANGED <<convVars, clientVars, listVars>>

\* downloadImage with a url and no file: createWriteStream makes the file,
\* protocol.get sends the request (lines 57-60).
DownloadMiss ==
  /\ Len(assets.log) < MaxRenders
  /\ assets.file = "none"
  /\ assets' = [assets EXCEPT !.file = "empty", !.wire = "sent"]
  /\ UNCHANGED <<envPrefix, invRev, apiRev, draftOrder, invoice, numbers,
                 totals, doc>>
  /\ UNCHANGED <<convVars, clientVars, listVars>>

\* The response callback and the request's error handler (lines 60-76).
\* A redirect calls downloadImage again for the same file, which is there
\* by now, so the call resolves with its path; any other status is piped
\* to the file; an error unlinks the file and resolves with null.
GetResponse(r) ==
  /\ assets.wire = "sent"
  /\ assets' =
       CASE r = "redirect" ->
              [assets EXCEPT !.wire = "none",
                             !.log = Append(@, Resolved(TRUE, TRUE, TRUE, "empty", "none"))]
         [] r = "error" ->
              [assets EXCEPT !.file = "none", !.wire = "none",
                             !.log = Append(@, Resolved(TRUE, TRUE, FALSE, "none", "none"))]
         [] OTHER ->
              [assets EXCEPT !.file = "partial", !.wire = r]
  /\ UNCHANGED <<envPrefix, invRev, apiRev, draftOrder, invoice, numbers,
                 totals, doc>>
  /\ UNCHANGED <<convVars, clientVars, listVars>>

\* file.on('finish'): the whole body is in the file, the call resolves with
\* the path (lines 68-71).
Finish ==
  /\ assets.wire \in {"image", "page"}
  /\ assets' = [assets EXCEPT !.file = assets.wire, !.wire = "none",
                              !.log = Append(@, Resolved(TRUE, TRUE, TRUE, assets.wire, "none"))]
  /\ UNCHANGED <<envPrefix, invRev, apiRev, draftOrder, invoice, numbers,
                 totals, doc>>
  /\ UNCHANGED <<convVars, clientVars, listVars>>

InitAssets ==
  /\ InvIdle
  /\ ConvIdle
  /\ ClientIdle
  /\ ListIdle

NextAssets ==
  \/ \E url \in BOOLEAN : DownloadHit(url)
  \/ DownloadMiss
  \/ \E r \in Responses : GetResponse(r)
  \/ Finish

SpecAssets == InitAssets /\ [][NextAssets]_vars

----------------------------------------------------------------------------
(* ShopifyService (src/services/shopify.js): the token cache, the retry on  *)
(* 401 and the product cache, used by several callers at once.  Node runs   *)
(* each stretch of code between two awaits without interruption, so an      *)
(* action is one such stretch: it ends where the code awaits the network.   *)

MaxTicks == 1           \* clock advances in one behaviour
MaxFaults == 1          \* calls the platform fails while getProducts calls are made

TokenBufferMs == 300000
TokenLifetimeMs == 23 * 60 * 60 * 1000
ProductsTtlMs == 5 * 60 * 1000

\* Around single requests the clock advances by a minute or by the length
\* of the r1 token window.
TickSteps == {60 * 1000, TokenLifetimeMs - TokenBufferMs}

\* Around getProducts the clock advances by a minute or by the product TTL.
WaitSteps == {60 * 1000, ProductsTtlMs}

\* r2: the expires_in, in seconds, of the platform's token responses: ten
\* minutes, which leaves a window of five.
ExpiresInChoices == {10 * 60}

\* A stricter test than the code's: nothing is valid for the whole lifetime.
TokenValidWholeLifetime(tok, exp, t) == tok # 0 /\ exp # 0 /\ t < exp - TokenLifetimeMs

\* The test that opens getAccessToken: truthy token, truthy expiry, and more
\* than five minutes left.
TokenValid(tok, exp, t) == tok # 0 /\ exp # 0 /\ t < exp - TokenBufferMs

\* this.tokenExpiry after a token response received at instant t.
TokenExpiryAfter(rev, t, ein) ==
  IF rev = "r1" THEN t + TokenLifetimeMs ELSE t + ein * 1000

\* A retry that may itself be retried.
RetryAfter401Kept(retry) == retry

\* The retry argument of the call made from the 401 branch (r1: false; r2:
\* the second axios call stands outside the try block).
RetryAfter401(retry) == FALSE

\* An expiry that is already reached when it is stored.
ProductsExpiryAfterNoTtl(t) == t

\* this.productsCacheExpiry after a fetch completed at instant t.
ProductsExpiryAfter(t) == t + ProductsTtlMs

\* The test that opens getProducts (an empty array is truthy).
ProductsCacheValid(cache, exp, t) == IsSome(cache) /\ exp # 0 /\ t < exp

\* The pages the platform may hold: no product or one.
Catalogs == {<<>>, <<"a">>}

\* Some caller's request has obtained a token that is still more than five
\* minutes from the expiry it was stored with.
Window == \E q \in Procs : call[q].exp # 0 /\ now < call[q].exp - TokenBufferMs

\* The course of a single request is kept for the properties below: the
\* events so far, the expiry of the token it obtained, and whether it began
\* inside the window of a token obtained before.
Noted(c, events, exp) ==
  IF c.op = "request"
  THEN [c EXCEPT !.hist = @ \o events, !.exp = IF exp = 0 THEN @ ELSE exp]
  ELSE c

\* getAccessToken up to its await, for a service holding (tok, exp): a valid
\* cached token is returned and the data call goes out with it ("hit", "d");
\* otherwise the token exchange goes out ("x").
GetAccessToken(c, tok, exp) ==
  IF TokenValid(tok, exp, now)
  THEN Noted([c EXCEPT !.pc = "data", !.net = TRUE, !.tok = tok],
             <<"hit", "d">>, exp)
  ELSE Noted([c EXCEPT !.pc = "token", !.net = TRUE], <<"x">>, 0)

\* A fresh client request (retry = true) made within operation c.
BeginRequest(c) ==
  GetAccessToken([c EXCEPT !.retry = TRUE, !.out = "none",
                           !.win = (c.op = "request" /\ Window)],
                 accessToken, tokenExpiry)

\* Each caller makes one client operation.  Callers are interchangeable, so
\* they come in the order of their numbers.
NextCaller(p) == call[p].op = "none" /\ \A q \in Procs : q < p => call[q].op # "none"

\* What stays of operation c once it has returned or thrown: its outcome,
\* and for a single request the course it took.
Finished(c, out, event) ==
  IF c.op = "request"
  THEN [IdleCall EXCEPT !.op = c.op, !.hist = c.hist \o event, !.out = out,
                        !.win = c.win, !.exp = c.exp]
  ELSE [IdleCall EXCEPT !.op = c.op, !.out = out]

\* The record of a getProducts call that ended, with the cache it left.
\* stored: the call left its list in the cache, valid for the TTL from now.
Entry(c, ok, list, cache, expiry) ==
  [start |-> c.start, seen |-> c.seen, end |-> now, ok |-> ok, list |-> list,
   net |-> c.net, fetches |-> c.fetches, stale |-> c.stale,
   stored |-> (cache = Some(list) /\ expiry = now + ProductsTtlMs)]

\* mutant: an operation that ends with an error empties the product cache
ThrowClearsCache(p, c, event) ==
  /\ call' = [call EXCEPT ![p] = Finished(c, "error", event)]
  /\ done' = IF c.op = "getProducts"
             THEN Append(done, Entry(c, FALSE, <<>>, None, 0))
             ELSE done
  /\ productsCache' = None
  /\ productsCacheExpiry' = 0

\* Operation c of caller p ends with an error; the caches stay as they are.
Throw(p, c, event) ==
  /\ call' = [call EXCEPT ![p] = Finished(c, "error", event)]
  /\ done' = IF c.op = "getProducts"
             THEN Append(done, Entry(c, FALSE, <<>>, productsCache, productsCacheExpiry))
             ELSE done
  /\ UNCHANGED <<productsCache, productsCacheExpiry>>

\* request / requestWithHeaders called by caller p for a single resource.
StartRequest(p) ==
  /\ "request" \in cops
  /\ NextCaller(p)
  /\ LET c == BeginRequest([IdleCall EXCEPT !.op = "request"])
     IN /\ call' = [call EXCEPT ![p] = c]
  /\ UNCHANGED <<crev, cops, webhooks, reg, verified,
                 exchanges, expiresIn, now, ticks, catalog,
                 accessToken,
                 tokenExpiry, faults, productsCache,
                 productsCacheExpiry, done>>
  /\ UNCHANGED <<invVars, convVars, listVars>>

\* The token the platform hands out when every exchange gets a new one.
FreshToken == Cardinality(exchanges.tokens) + 1

\* mutant: the expiry is stored only while none is stored
ExchangeOkKeepsExpiry(p, token) ==
  /\ call[p].pc = "token"
  /\ accessToken' = token
  /\ tokenExpiry' = IF tokenExpiry # 0 THEN tokenExpiry
                    ELSE TokenExpiryAfter(crev, now, expiresIn)
  /\ exchanges' = [tokens |-> exchanges.tokens \cup {token},
                   stored |-> IF tokenExpiry # 0 THEN exchanges.stored ELSE token]
  /\ call' = [call EXCEPT ![p] = Noted([@ EXCEPT !.pc = "data", !.tok = token],
                                        <<"xok", "d">>,
                                        TokenExpiryAfter(crev, now, expiresIn))]
  /\ UNCHANGED <<crev, cops, webhooks, reg, verified,
                 expiresIn, now, ticks, catalog, faults,
                 productsCache, productsCacheExpiry, done>>
  /\ UNCHANGED <<invVars, convVars, listVars>>

\* The token endpoint answers caller p with `token`: the token and its expiry
\* are stored in the same stretch of code and the data call goes out with
\* the token.
ExchangeOk(p, token) ==
  /\ call[p].pc = "token"
  /\ accessToken' = token
  /\ tokenExpiry' = TokenExpiryAfter(crev, now, expiresIn)
  /\ exchanges' = [tokens |-> exchanges.tokens \cup {token}, stored |-> token]
  /\ call' = [call EXCEPT ![p] = Noted([@ EXCEPT !.pc = "data", !.tok = token],
                                        <<"xok", "d">>,
                                        TokenExpiryAfter(crev, now, expiresIn))]
  /\ UNCHANGED <<crev, cops, webhooks, reg, verified,
                 expiresIn, now, ticks, catalog, faults,
                 productsCache, productsCacheExpiry, done>>
  /\ UNCHANGED <<invVars, convVars, listVars>>

\* The token exchange of caller p fails: getAccessToken throws an Error with
\* no response, which no 401 branch catches.
ExchangeFails(p, max) ==
  /\ call[p].pc = "token"
  /\ faults < max
  /\ faults' = faults + 1
  /\ Throw(p, call[p], <<"xfail">>)
  /\ UNCHANGED <<crev, cops, webhooks, reg, verified,
                 exchanges, expiresIn, now, ticks, catalog,
                 accessToken,
                 tokenExpiry>>
  /\ UNCHANGED <<invVars, convVars, listVars>>

\* The data call of caller p is answered 401.  With retry still allowed the
\* cached token is dropped (r2 drops the expiry too) and the request starts
\* over in the same stretch of code; otherwise the error is thrown.
Data401(p, max) ==
  /\ call[p].pc = "data"
  /\ faults < max
  /\ faults' = faults + 1
  /\ IF call[p].retry
     THEN LET exp == IF crev = "r2" THEN 0 ELSE tokenExpiry
              c == GetAccessToken(Noted([call[p] EXCEPT !.retry = RetryAfter401(@)],
                                        <<"401">>, 0),
                                  0, exp)
          IN /\ accessToken' = 0
             /\ tokenExpiry' = exp
             /\ exchanges' = [exchanges EXCEPT !.stored = IF exp = 0 THEN 0 ELSE @]
             /\ call' = [call EXCEPT ![p] = c]
             /\ UNCHANGED <<productsCache, productsCacheExpiry, done>>
     ELSE /\ Throw(p, call[p], <<"401">>)
          /\ UNCHANGED <<accessToken, tokenExpiry, exchanges>>
  /\ UNCHANGED <<crev, cops, webhooks, reg, verified, expiresIn, now, ticks, catalog>>
  /\ UNCHANGED <<invVars, convVars, listVars>>

\* mutant: a failed data call also drops the cached token
DataErrDropsToken(p, max) ==
  /\ call[p].pc = "data"
  /\ faults < max
  /\ faults' = faults + 1
  /\ Throw(p, call[p], <<"err">>)
  /\ accessToken' = 0
  /\ UNCHANGED <<crev, cops, webhooks, reg, verified,
                 exchanges, expiresIn, now, ticks, catalog,
                 tokenExpiry>>
  /\ UNCHANGED <<invVars, convVars, listVars>>

\* The data call of caller p fails otherwise (another status, no answer).
DataErr(p, max) ==
  /\ call[p].pc = "data"
  /\ faults < max
  /\ faults' = faults + 1
  /\ Throw(p, call[p], <<"err">>)
  /\ UNCHANGED <<crev, cops, webhooks, reg, verified,
                 exchanges, expiresIn, now, ticks, catalog,
                 accessToken,
                 tokenExpiry>>
  /\ UNCHANGED <<invVars, convVars, listVars>>

\* getProducts stores and returns the list it has gathered.
StoreProducts(p, c, list) ==
  /\ productsCache' = Some(list)
  /\ productsCacheExpiry' = ProductsExpiryAfter(now)
  /\ done' = Append(done, Entry(c, TRUE, list, Some(list), ProductsExpiryAfter(now)))
  /\ call' = [call EXCEPT ![p] = Finished(c, "ok", <<"ok">>)]

\* The data call of caller p is answered 2xx.  A single request returns; page
\* 1 of getProducts with a next link asks for page 2; otherwise getProducts
\* stores and returns what it has.
DataOk(p, hasNext) ==
  /\ call[p].pc = "data"
  /\ LET c == call[p] IN
     CASE c.op = "request" ->
            /\ ~hasNext
            /\ call' = [call EXCEPT ![p] = Finished(c, "ok", <<"ok">>)]
            /\ UNCHANGED <<productsCache, productsCacheExpiry, done>>
       [] c.op = "getProducts" /\ c.page = 1 /\ hasNext ->
            /\ catalog # <<>>
            /\ LET n == BeginRequest([c EXCEPT !.page = 2, !.all = catalog])
               IN /\ call' = [call EXCEPT ![p] = n]
            /\ UNCHANGED <<productsCache, productsCacheExpiry, done>>
       [] c.op = "getProducts" /\ c.page = 1 /\ ~hasNext ->
            /\ StoreProducts(p, c, catalog)
       [] c.op = "getProducts" /\ c.page = 2 ->
            /\ ~hasNext
            /\ StoreProducts(p, c, c.all \o catalog)
  /\ UNCHANGED <<crev, cops, webhooks, reg, verified,
                 exchanges, expiresIn, now, ticks, catalog,
                 accessToken,
                 tokenExpiry, faults>>
  /\ UNCHANGED <<invVars, convVars, listVars>>

\* getProducts called by caller p: the cached list while it is valid,
\* otherwise the request for page 1.
StartGetProducts(p) ==
  /\ "getProducts" \in cops
  /\ NextCaller(p)
  /\ LET c == [IdleCall EXCEPT !.op = "getProducts", !.start = now,
                               !.seen = Len(done)]
     IN IF ProductsCacheValid(productsCache, productsCacheExpiry, now)
        THEN /\ done' = Append(done, Entry(c, TRUE, Val(productsCache),
                                           productsCache, productsCacheExpiry))
             /\ call' = [call EXCEPT ![p] = Finished(c, "ok", <<>>)]
        ELSE LET n == BeginRequest([c EXCEPT !.page = 1, !.fetches = 1,
                                             !.stale = IsSome(productsCache)])
             IN /\ call' = [call EXCEPT ![p] = n]
                /\ UNCHANGED done
  /\ UNCHANGED <<crev, cops, webhooks, reg, verified,
                 exchanges, expiresIn, now, ticks, catalog,
                 accessToken,
                 tokenExpiry, faults, productsCache,
                 productsCacheExpiry>>
  /\ UNCHANGED <<invVars, convVars, listVars>>

\* Time passes.
Tick(d, max) ==
  /\ ticks < max
  /\ ticks' = ticks + 1
  /\ now' = now + d
  /\ UNCHANGED <<crev, cops, webhooks, reg, verified,
                 exchanges, expiresIn, catalog, accessToken,
                 tokenExpiry,
                 faults, productsCache, productsCacheExpiry,
                 call, done>>
  /\ UNCHANGED <<invVars, convVars, listVars>>

\* The merchant edits the catalog on the platform.  Only page responses of
\* getProducts show the catalog, so an edit made while no page is awaited is
\* the same as one made once the next page is awaited.
CatalogChange(products) ==
  /\ products # catalog
  /\ \E p \in Procs : call[p].pc = "data" /\ call[p].op = "getProducts"
  /\ catalog' = products
  /\ UNCHANGED <<crev, cops, webhooks, reg, verified,
                 exchanges, expiresIn, now, ticks, accessToken,
                 tokenExpiry,
                 faults, productsCache, productsCacheExpiry,
                 call, done>>
  /\ UNCHANGED <<invVars, convVars, listVars>>

\* SpecClient: single-resource requests of both revisions on one service; the
\* platform answers every exchange with the same token.
InitClient ==
  /\ InvIdle
  /\ ConvIdle
  /\ ListIdle
  /\ \/ crev = "r1" /\ expiresIn = 0
     \/ crev = "r2" /\ expiresIn \in ExpiresInChoices
  /\ cops = {"request"}
  /\ now = 0
  /\ ticks = 0
  /\ catalog = <<>>
  /\ accessToken = 0
  /\ tokenExpiry = 0
  /\ faults = 0
  /\ exchanges = NoExchange
  /\ productsCache = None
  /\ productsCacheExpiry = 0
  /\ call = [p \in Procs |-> IdleCall]
  /\ done = <<>>
  /\ webhooks = NoWebhooks
  /\ reg = NoRuns
  /\ verified = None

NextClient ==
  \/ \E p \in Procs : StartRequest(p)
  \/ \E p \in Procs : ExchangeOk(p, 1)
  \/ \E p \in Procs : ExchangeFails(p, 2 * NumProcs)
  \/ \E p \in Procs : Data401(p, 2 * NumProcs)
  \/ \E p \in Procs : DataErr(p, 2 * NumProcs)
  \/ \E p \in Procs : DataOk(p, FALSE)
  \/ \E d \in TickSteps : Tick(d, MaxTicks)

SpecClient == InitClient /\ [][NextClient]_vars

\* SpecCatalog: getProducts of r1 (the revision with the product cache).
InitCatalog ==
  /\ InvIdle
  /\ ConvIdle
  /\ ListIdle
  /\ crev = "r1"
  /\ expiresIn = 0
  /\ cops = {"getProducts"}
  /\ now = 0
  /\ ticks = 0
  /\ catalog = <<>>
  /\ accessToken = 0
  /\ tokenExpiry = 0
  /\ faults = 0
  /\ exchanges = NoExchange
  /\ productsCache = None
  /\ productsCacheExpiry = 0
  /\ call = [p \in Procs |-> IdleCall]
  /\ done = <<>>
  /\ webhooks = NoWebhooks
  /\ reg = NoRuns
  /\ verified = None

NextCatalog ==
  \/ \E p \in Procs : StartGetProducts(p)
  \/ \E p \in Procs : ExchangeOk(p, 1)
  \/ \E p \in Procs : ExchangeFails(p, MaxFaults)
  \/ \E p \in Procs : Data401(p, MaxFaults)
  \/ \E p \in Procs : DataErr(p, MaxFaults)
  \/ \E p \in Procs, hasNext \in BOOLEAN : DataOk(p, hasNext)
  \/ \E d \in WaitSteps : Tick(d, MaxTicks)
  \/ \E products \in Catalogs : CatalogChange(products)

SpecCatalog == InitCatalog /\ [][NextCatalog]_vars

\* No caller awaits the network.
Quiet == \A p \in Procs : call[p].pc = "idle"

\* SpecShared: single requests and getProducts calls interleaved on one
\* service (r1), or single requests alone (r2, which has no product cache);
\* the platform issues a new token at every exchange, and between calls the
\* clock advances by the product TTL (which is also the r2 token window).
InitShared ==
  /\ InvIdle
  /\ ConvIdle
  /\ ListIdle
  /\ \/ crev = "r1" /\ expiresIn = 0 /\ cops = {"request", "getProducts"}
     \/ crev = "r2" /\ expiresIn \in ExpiresInChoices /\ cops = {"request"}
  /\ now = 0
  /\ ticks = 0
  /\ catalog = <<>>
  /\ accessToken = 0
  /\ tokenExpiry = 0
  /\ faults = 0
  /\ exchanges = NoExchange
  /\ productsCache = None
  /\ productsCacheExpiry = 0
  /\ call = [p \in Procs |-> IdleCall]
  /\ done = <<>>
  /\ webhooks = NoWebhooks
  /\ reg = NoRuns
  /\ verified = None

NextShared ==
  \/ \E p \in Procs : StartRequest(p)
  \/ \E p \in Procs : StartGetProducts(p)
  \/ \E p \in Procs : ExchangeOk(p, FreshToken)
  \/ \E p \in Procs : ExchangeFails(p, MaxFaults)
  \/ \E p \in Procs : Data401(p, MaxFaults)
  \/ \E p \in Procs : DataErr(p, MaxFaults)
  \/ \E p \in Procs, hasNext \in BOOLEAN : DataOk(p, hasNext)
  \/ \E products \in Catalogs : CatalogChange(products)
  \/ Quiet /\ Tick(ProductsTtlMs, MaxTicks)

SpecShared == InitShared /\ [][NextShared]_vars

----------------------------------------------------------------------------
(* SpecHooks: registerWebhooks (shopify.js 278-304), called once when the   *)
(* server starts listening and once through POST /webhooks/register.  The   *)
(* calls it awaits are the listing and one create per absent topic; each    *)
(* returns or throws, and the platform decides which.                       *)

\* The loop from topic k on, up to its next await: a topic the listing
\* showed is pushed as 'exists'; the first topic it did not show has its
\* create call issued; after the last topic the results are returned.
RECURSIVE LoopFrom(_, _)
LoopFrom(run, k) ==
  IF k > Len(Topics)
    THEN [run EXCEPT !.pc = "done", !.k = Len(Topics)]
    ELSE IF Topics[k] \in run.existing
           THEN LoopFrom([run EXCEPT !.results =
                            Append(@, [topic |-> Topics[k], status |-> "exists"])],
                         k + 1)
           ELSE [run EXCEPT !.pc = "create", !.k = k]

\* Some other run has returned with no 'error' among its results.
SucceededBefore(r) ==
  \E o \in Runs \ {r} :
    /\ reg[o].pc = "done"
    /\ \A i \in 1..Len(reg[o].results) : reg[o].results[i].status # "error"

\* What the webhook actions leave alone.
HooksFrame ==
  /\ UNCHANGED <<crev, cops, exchanges, expiresIn, now, ticks, catalog,
                 accessToken, tokenExpiry, faults, productsCache,
                 productsCacheExpiry, call, done, verified>>
  /\ UNCHANGED <<invVars, convVars, listVars>>

\* registerWebhooks is called: the listing is requested.
StartRegister(r) ==
  /\ reg[r].pc = "idle"
  /\ reg' = [reg EXCEPT ![r] = [@ EXCEPT !.pc = "list",
                                         !.after = SucceededBefore(r)]]
  /\ UNCHANGED webhooks
  /\ HooksFrame

\* The listing arrives with the topics the platform holds now, and the loop
\* runs up to its first create call.
ListingOk(r) ==
  /\ reg[r].pc = "list"
  /\ reg' = [reg EXCEPT ![r] =
               LoopFrom([@ EXCEPT !.existing = {t \in TopicSet : webhooks[t] > 0}], 1)]
  /\ UNCHANGED webhooks
  /\ HooksFrame

\* The listing fails: getWebhooks throws out of registerWebhooks, which has
\* no try around it; no result is returned.
ListingFails(r) ==
  /\ reg[r].pc = "list"
  /\ reg' = [reg EXCEPT ![r] = [@ EXCEPT !.pc = "thrown"]]
  /\ UNCHANGED webhooks
  /\ HooksFrame

\* The platform accepts the create call: it holds one more registration of
\* the topic, 'created' is pushed and the loop goes on.
CreateOk(r) ==
  /\ reg[r].pc = "create"
  /\ LET topic == Topics[reg[r].k] IN
       /\ webhooks' = [webhooks EXCEPT ![topic] = @ + 1]
       /\ reg' = [reg EXCEPT ![r] =
                    LoopFrom([@ EXCEPT !.results =
                                Append(@, [topic |-> topic, status |-> "created"])],
                             reg[r].k + 1)]
  /\ HooksFrame

\* mutant: a create call that fails ends the run (the catch is outside the loop)
CreateFailsEndsRun(r) ==
  /\ reg[r].pc = "create"
  /\ reg' = [reg EXCEPT ![r] =
               [@ EXCEPT !.pc = "done",
                         !.results = Append(@, [topic |-> Topics[reg[r].k],
                                               status |-> "error"])]]
  /\ UNCHANGED webhooks
  /\ HooksFrame

\* The create call fails: the catch inside the loop pushes 'error' and the
\* loop goes on with the next topic.
CreateFails(r) ==
  /\ reg[r].pc = "create"
  /\ reg' = [reg EXCEPT ![r] =
               LoopFrom([@ EXCEPT !.results =
                           Append(@, [topic |-> Topics[reg[r].k],
                                      status |-> "error"])],
                        reg[r].k + 1)]
  /\ UNCHANGED webhooks
  /\ HooksFrame

\* The platform holds any of the topics already, once each.
InitHooks ==
  /\ InvIdle
  /\ ConvIdle
  /\ ListIdle
  /\ crev = "r1"
  /\ cops = {}
  /\ expiresIn = 0
  /\ now = 0
  /\ ticks = 0
  /\ catalog = <<>>
  /\ accessToken = 0
  /\ tokenExpiry = 0
  /\ faults = 0
  /\ exchanges = NoExchange
  /\ productsCache = None
  /\ productsCacheExpiry = 0
  /\ call = [p \in Procs |-> IdleCall]
  /\ done = <<>>
  /\ webhooks \in [TopicSet -> {0, 1}]
  /\ reg = NoRuns
  /\ verified = None

NextHooks ==
  \/ \E r \in Runs : StartRegister(r)
  \/ \E r \in Runs : ListingOk(r)
  \/ \E r \in Runs : ListingFails(r)
  \/ \E r \in Runs : CreateOk(r)
  \/ \E r \in Runs : CreateFails(r)

SpecHooks == InitHooks /\ [][NextHooks]_vars

----------------------------------------------------------------------------
(* SpecVerify: verifyWebhookSignature (shopify.js 314-319) applied to       *)
(* bounded bodies and headers.  Strings are ASCII, so a Buffer has as many  *)
(* bytes as its string has characters.                                      *)

SigLen == 2             \* characters of a signature (base64 of SHA-256: 44)
MaxBody == 2            \* characters of a request body

SigChars == {"a", "b"}

\* The strings over SigChars of length at most n.
Strings(n) == SeqsUpTo(SigChars, n)

\* The header as the caller passes it: absent, or any string up to one
\* character longer than a signature.
HmacHeaders == {None} \cup {Some(s) : s \in Strings(SigLen + 1)}

\* createHmac('sha256', secret).update(body).digest('base64'): a string of
\* fixed length that depends on the whole body (the secret does not change
\* while the process runs).
Hmac(body) ==
  LET bs == Cardinality({i \in 1..Len(body) : body[i] = "b"})
  IN [i \in 1..SigLen |-> IF (bs + i * Len(body)) % 2 = 0 THEN "a" ELSE "b"]

\* crypto.timingSafeEqual: a RangeError when the byte lengths differ,
\* otherwise whether the bytes are equal.
timingSafeEqual(a, b) ==
  IF Len(a) # Len(b) THEN "throws"
  ELSE IF a = b THEN "true" ELSE "false"

\* hmacHeader || '': an absent or empty header counts as the empty string.
verifyWebhookSignature(body, hmacHeader) ==
  timingSafeEqual(Hmac(body), IF IsSome(hmacHeader) THEN Val(hmacHeader) ELSE <<>>)

\* A caller verifies the signature header of a webhook body.
Verify(body, hmacHeader) ==
  /\ verified' = Some([body |-> body, header |-> hmacHeader,
                       out |-> verifyWebhookSignature(body, hmacHeader)])
  /\ UNCHANGED <<crev, cops, webhooks, reg, exchanges, expiresIn, now, ticks,
                 catalog, accessToken, tokenExpiry, faults, productsCache,
                 productsCacheExpiry, call, done>>
  /\ UNCHANGED <<invVars, convVars, listVars>>

InitVerify ==
  /\ InvIdle
  /\ ConvIdle
  /\ ClientIdle
  /\ ListIdle

NextVerify ==
  \E body \in Strings(MaxBody), hmacHeader \in HmacHeaders : Verify(body, hmacHeader)

SpecVerify == InitVerify /\ [][NextVerify]_vars

----------------------------------------------------------------------------
(* SpecList: the paged listings of the client (getDraftOrders,             *)
(* getProducts) and GET /draft-orders, called one after the other.         *)

MaxPageLen == 2         \* records on one page of the platform
MaxLimit == 2           \* largest limit a caller of GET /draft-orders asks for
MaxListCalls == 2       \* listings one behaviour makes
DefaultLimit == 30      \* const { status = 'open', limit = 30 } = req.query

Times == {1, 2}         \* created_at instants of the quotes

\* A Link header: its link-values in order, each a target with a rel.
LinkHeaders ==
  { None,
    Some(<<[url |-> "p2", rel |-> "next"]>>),
    Some(<<[url |-> "p0", rel |-> "previous"]>>),
    Some(<<[url |-> "p0", rel |-> "previous"], [url |-> "p2", rel |-> "next"]>>) }

\* mutant: any link-value is taken for the next page
GetNextPageUrlAnyRel(linkHeader) ==
  IF ~IsSome(linkHeader) THEN None
  ELSE Some(Val(linkHeader)[1].url)

\* getNextPageUrl: the target of the first link-value with rel="next".
getNextPageUrl(linkHeader) ==
  IF ~IsSome(linkHeader) THEN None
  ELSE LET l == Val(linkHeader)
           at == {i \in 1..Len(l) : l[i].rel = "next"}
       IN IF at = {} THEN None
          ELSE Some(l[CHOOSE i \in at : \A j \in at : i <= j].url)

\* A page response: its list (missing from a body without it) and its Link
\* header.  The platform numbers the records of page n from (n-1)*MaxPageLen.
PageResponse(times, pageNo, withList, link) ==
  [ records |-> IF withList
                  THEN Some([i \in 1..Len(times) |->
                               [id |-> (pageNo - 1) * MaxPageLen + i,
                                created_at |-> times[i]]])
                  ELSE None,
    link |-> link ]

\* The page responses the platform may give: quotes carry a creation time,
\* products are told apart by their id only.
PageResponses(op, pageNo) ==
  {PageResponse(times, pageNo, TRUE, link) :
     times \in SeqsUpTo(IF op = "getProducts" THEN {0} ELSE Times, MaxPageLen),
     link \in LinkHeaders}
  \cup {PageResponse(<<>>, pageNo, FALSE, link) : link \in LinkHeaders}

\* page.data.draft_orders || []
RecordsOf(page) == IF IsSome(page.records) THEN Val(page.records) ELSE <<>>

\* x put into the newest-first list s behind every record that is not older.
InsertNewestFirst(s, x) ==
  LET k == Cardinality({i \in 1..Len(s) : s[i].created_at >= x.created_at})
  IN SubSeq(s, 1, k) \o <<x>> \o SubSeq(s, k + 1, Len(s))

\* mutant: the comparator is a - b, oldest first
RECURSIVE SortNewestFirstAscending(_)
SortNewestFirstAscending(s) ==
  IF Len(s) = 0 THEN <<>>
  ELSE LET r == SortNewestFirstAscending(SubSeq(s, 1, Len(s) - 1))
           x == s[Len(s)]
           k == Cardinality({i \in 1..Len(r) : r[i].created_at <= x.created_at})
       IN SubSeq(r, 1, k) \o <<x>> \o SubSeq(r, k + 1, Len(r))

\* list.sort((a, b) => new Date(b.created_at) - new Date(a.created_at)):
\* descending by creation time, equal times keeping their order.
RECURSIVE SortNewestFirst(_)
SortNewestFirst(s) ==
  IF Len(s) = 0 THEN <<>>
  ELSE InsertNewestFirst(SortNewestFirst(SubSeq(s, 1, Len(s) - 1)), s[Len(s)])

\* parseInt(limit): the default is a number already, a query value its digits.
ParseIntLimit(limit) ==
  IF IsSome(limit) THEN DigitRun(Val(limit), 1, 0)[1] ELSE DefaultLimit

\* list.slice(0, n) for n >= 0
Slice(s, n) == SubSeq(s, 1, IF n < Len(s) THEN n ELSE Len(s))

ListLimits == {None} \cup {Some(NatToString(n)) : n \in 0..MaxLimit}

\* What a listing hands back.
ListOk(list, total) == [ok |-> TRUE, list |-> list, count |-> Len(list), totalCount |-> total]
ListError == [ok |-> FALSE, list |-> <<>>, count |-> 0, totalCount |-> 0]

\* A listing is called: getProducts answers from a valid cache at once,
\* every other call asks the platform for page 1.
StartList(op, limit) ==
  /\ lpc \in {"idle", "done"}
  /\ lCalls < MaxListCalls
  /\ lCalls' = lCalls + 1
  /\ lOp' = op
  /\ lLimit' = limit
  /\ lPages' = <<>>
  /\ IF op = "getProducts" /\ ProductsCacheValid(productsCache, productsCacheExpiry, now)
       THEN /\ lpc' = "done"
            /\ lOut' = Some(ListOk(Val(productsCache), Len(Val(productsCache))))
       ELSE /\ lpc' = "page1"
            /\ lOut' = None
  /\ UNCHANGED clientVars
  /\ UNCHANGED <<invVars, convVars>>

\* The pages are in: getDraftOrders sorts them, the route sorts again and
\* cuts to the limit, getProducts stores the list in its cache.
ListReturn(all) ==
  /\ lpc' = "done"
  /\ CASE lOp = "getDraftOrders" ->
            /\ lOut' = Some(ListOk(SortNewestFirst(all), Len(all)))
            /\ UNCHANGED <<productsCache, productsCacheExpiry>>
       [] lOp = "route" ->
            /\ lOut' = Some(ListOk(Slice(SortNewestFirst(SortNewestFirst(all)),
                                         ParseIntLimit(lLimit)),
                                   Len(all)))
            /\ UNCHANGED <<productsCache, productsCacheExpiry>>
       [] lOp = "getProducts" ->
            /\ lOut' = Some(ListOk(all, Len(all)))
            /\ productsCache' = Some(all)
            /\ productsCacheExpiry' = ProductsExpiryAfter(now)

\* requestWithHeaders throws for the page awaited: the listing throws (the
\* route hands the error to the error middleware).
ListPageFails ==
  /\ lpc \in {"page1", "page2"}
  /\ lpc' = "done"
  /\ lOut' = Some(ListError)
  /\ UNCHANGED <<lOp, lLimit, lPages, lCalls>>
  /\ UNCHANGED clientVars
  /\ UNCHANGED <<invVars, convVars>>

\* page 1 arrives: with a next link page 2 is asked for, else the call returns.
ListPage1(page) ==
  /\ lpc = "page1"
  /\ lPages' = <<page>>
  /\ IF IsSome(getNextPageUrl(page.link))
       THEN /\ lpc' = "page2"
            /\ UNCHANGED <<lOut, productsCache, productsCacheExpiry>>
       ELSE ListReturn(RecordsOf(page))
  /\ UNCHANGED <<lOp, lLimit, lCalls>>
  /\ UNCHANGED <<crev, cops, webhooks, reg, verified,
                 exchanges, expiresIn, now, ticks, catalog,
                 accessToken,
                 tokenExpiry, faults, call, done>>
  /\ UNCHANGED <<invVars, convVars>>

\* page 2 arrives: its Link header is not looked at, the call returns.
ListPage2(page) ==
  /\ lpc = "page2"
  /\ lPages' = Append(lPages, page)
  /\ ListReturn(RecordsOf(lPages[1]) \o RecordsOf(page))
  /\ UNCHANGED <<lOp, lLimit, lCalls>>
  /\ UNCHANGED <<crev, cops, webhooks, reg, verified,
                 exchanges, expiresIn, now, ticks, catalog,
                 accessToken,
                 tokenExpiry, faults, call, done>>
  /\ UNCHANGED <<invVars, convVars>>

InitList ==
  /\ InvIdle
  /\ ConvIdle
  /\ ClientIdle
  /\ ListIdle

NextList ==
  \/ \E op \in {"getDraftOrders", "getProducts"} : StartList(op, None)
  \/ \E limit \in ListLimits : StartList("route", limit)
  \/ ListPageFails
  \/ lpc = "page1" /\ \E page \in PageResponses(lOp, 1) : ListPage1(page)
  \/ lpc = "page2" /\ \E page \in PageResponses(lOp, 2) : ListPage2(page)

SpecList == InitList /\ [][NextList]_vars

----------------------------------------------------------------------------
(* Properties of the token cache and the retry on 401 (SpecClient) *)

Requests == {p \in Procs : call[p].op = "request"}
IsPrefix(s, t) == Len(s) <= Len(t) /\ SubSeq(t, 1, Len(s)) = s
Count(h, e) == Cardinality({i \in 1..Len(h) : h[i] = e})
Has401(h) == \E i \in 1..Len(h) : h[i] = "401"
No401 == \A p \in Procs : ~Has401(call[p].hist)

\* What follows the first 401 in the course h of a request (h itself if none).
After401(h) ==
  LET at == {i \in 1..Len(h) : h[i] = "401"}
  IN IF at = {} THEN h
     ELSE SubSeq(h, 1 + CHOOSE i \in at : \A j \in at : i <= j, Len(h))

\* The complete courses after a first 401 in which the token exchange
\* succeeds: one exchange, then one retry of the data call, however it ends.
RetriedOnce == {<<"x", "xok", "d", r>> : r \in {"ok", "401", "err"}}

\* The complete course after a first 401 in which the token exchange fails.
ExchangeFailed == <<"x", "xfail">>

\* The course of a request after its first data call was answered 401 is
\* one of `courses`, or the beginning of one while the request is in flight.
After401Within(c, courses) ==
  LET t == After401(c.hist)
  IN /\ Len(t) > 0
     /\ IF c.out = "none"
        THEN \E full \in courses : IsPrefix(t, full) /\ t # full
        ELSE t \in courses
     /\ c.out = "ok" <=> t = <<"x", "xok", "d", "ok">>

\* The step in which caller p learns of the first 401 of its request.
First401Step(p) == ~Has401(call[p].hist) /\ Has401(call'[p].hist)

\* C1 (as amended): when the first data call of a client request returns 401,
\* the client discards the cached token and performs exactly one token
\* exchange; when that exchange succeeds it retries the data call exactly
\* once, and when it fails the request fails with no retry.  When the retry
\* also returns 401 the request fails with an error and neither a further
\* token exchange nor a further data call is made.
C1_RetryOnceAfter401 ==
  [][\A p \in Procs :
       call'[p] # call[p] =>
         /\ First401Step(p) => accessToken' = 0 /\ call'[p].pc = "token"
         /\ Has401(call'[p].hist) =>
              After401Within(call'[p], RetriedOnce \cup {ExchangeFailed})]_vars

\* C1 witness: a request whose first data call and whose retry were both
\* answered 401 has failed, after one exchange and one retry.
C1_Witness ==
  \E p \in Requests :
    /\ call[p].out = "error"
    /\ After401(call[p].hist) = <<"x", "xok", "d", "401">>

\* C1 (as stated): after a first 401 every request makes exactly one token
\* exchange and exactly one retry of the data call.
C1_AsStated ==
  [][\A p \in Procs :
       (call'[p] # call[p] /\ Has401(call'[p].hist)) =>
         After401Within(call'[p], RetriedOnce)]_vars

\* The step in which caller p starts a request, and with it getAccessToken.
StartStep(p) == call[p].op = "none" /\ call'[p].op = "request"

\* C2: of two client requests, the second starting while now is more than five
\* minutes before the expiry of the token obtained for the first, and with no
\* 401 answered, the second makes no token exchange and the two make at most
\* one in total; getAccessToken hands out the cached token with no network
\* call whenever accessToken and tokenExpiry are set and
\* now < tokenExpiry - 5 minutes.
C2_TokenReuse ==
  [][/\ \A p \in Procs :
          (StartStep(p) /\ accessToken # 0 /\ tokenExpiry # 0
                        /\ now < tokenExpiry - 5 * 60 * 1000) =>
            /\ call'[p].hist = <<"hit", "d">>
            /\ call'[p].exp = tokenExpiry
            /\ UNCHANGED <<accessToken, tokenExpiry>>
     /\ (call' # call /\ No401') =>
          \A p \in Procs, q \in Procs :
            (p # q /\ call'[p].win) =>
              /\ Count(call'[p].hist, "x") = 0
              /\ Count(call'[p].hist, "x") + Count(call'[q].hist, "x") <= 1]_vars

\* C2 witness: a request that began inside the window of a token obtained by
\* an earlier request has returned, having used the cached token.
C2_Witness ==
  /\ No401
  /\ \E p \in Requests, q \in Requests :
       /\ p # q
       /\ call[q].hist = <<"x", "xok", "d", "ok">>
       /\ call[p].win
       /\ call[p].hist = <<"hit", "d", "ok">>
       /\ now > 0

----------------------------------------------------------------------------
(* Properties of the product cache (SpecCatalog) *)

Calls == DOMAIN done

\* Call j began after call i had ended, and less than the TTL after it.
Within(i, j) ==
  /\ i <= done[j].seen
  /\ done[j].start < done[i].end + 5 * 60 * 1000

\* No call stored a list after call i ended and before call j began.
NoStoreBetween(i, j) == \A m \in Calls : (i < m /\ m <= done[j].seen) => ~done[m].stored

\* C3 (as amended): a getProducts call that starts less than 5 minutes after
\* another completed a successful catalog fetch issues no upstream request
\* and returns the cached snapshot, which is that call's list unless a
\* further fetch completed in between; the first getProducts call after the
\* expiry makes exactly one catalog fetch and, when the fetch succeeds,
\* replaces the cached snapshot and its expiry.
C3_ProductCache ==
  /\ \A i \in Calls, j \in Calls :
       (done[i].ok /\ done[i].stored /\ Within(i, j)) =>
         /\ done[j].ok
         /\ ~done[j].net
         /\ done[j].fetches = 0
         /\ NoStoreBetween(i, j) => done[j].list = done[i].list
  /\ \A j \in Calls :
       done[j].stale => done[j].fetches = 1 /\ (done[j].ok => done[j].stored)

\* C3 witness: a call that began a minute after a fetch completed has
\* returned that fetch's list from the cache.
C3_Witness ==
  \E i \in Calls, j \in Calls :
    /\ done[i].ok /\ done[i].stored /\ Within(i, j)
    /\ done[j].start > done[i].end
    /\ done[j].ok /\ ~done[j].net
    /\ done[j].list = done[i].list

\* C3 (as stated): any two calls, the second starting less than 5 minutes
\* after the first completed successfully, return the same list and the
\* second issues no upstream request; the first call after the expiry makes
\* exactly one fetch and replaces the cached snapshot and its expiry.
C3_AsStated ==
  /\ \A i \in Calls, j \in Calls :
       (done[i].ok /\ Within(i, j)) =>
         done[j].ok /\ ~done[j].net /\ done[j].list = done[i].list
  /\ \A j \in Calls :
       done[j].stale => done[j].fetches = 1 /\ done[j].stored

----------------------------------------------------------------------------
(* Properties of the batch and single conversion handlers (SpecConv) *)

LogIdx == 1..Len(hLog)
Answered(kind) == hpc = "responded" /\ Val(hResponse).kind = kind
FailedOut == {"fail", "empty"}

\* C4: batch conversion of N identifiers (empty and repeated lists included)
\* answers processed = N and successful + failed = N; when K identifiers fail
\* to fetch (the fetch rejects or finds nothing) and no other step fails,
\* failed = K and successful = N - K.
C4_BatchCounts ==
  (IsBatch /\ Answered("batch")) =>
    LET r == Val(hResponse)
        n == Len(Val(hReq).ids)
        k == Cardinality({i \in LogIdx : hLog[i].step = "fetch" /\ hLog[i].out \in FailedOut})
        others == {i \in LogIdx : hLog[i].step # "fetch" /\ hLog[i].out \in FailedOut}
    IN /\ Val(r.processed) = n
       /\ Val(r.successful) + Val(r.failed) = n
       /\ (others = {} => Val(r.failed) = k /\ Val(r.successful) = n - k)

\* C4 witness: a batch with a repeated identifier, one fetch failure, one success
C4_Witness ==
  /\ IsBatch /\ Answered("batch")
  /\ Val(hReq).ids = <<1, 1>>
  /\ Val(Val(hResponse).failed) = 1
  /\ Val(Val(hResponse).successful) = 1
  /\ \E i \in LogIdx : hLog[i].step = "fetch" /\ hLog[i].out = "fail"

WellFormedEntry(e) ==
  IF e.success
    THEN IsSome(e.invoiceNumber) /\ IsSome(e.total) /\ ~IsSome(e.error)
    ELSE IsSome(e.error) /\ ~IsSome(e.invoiceNumber) /\ ~IsSome(e.total)

\* C5: in batch conversion every input identifier gets exactly one entry, in
\* input order; a failed step of identifier i makes entry i (and only entry i)
\* a failure and every later identifier is still fetched; each entry carries
\* a success payload or an error message, never both and never neither.
C5_BatchIsolation ==
  IsBatch =>
    LET ids == Val(hReq).ids IN
    /\ Len(hResults) <= Len(ids)
    /\ \A i \in 1..Len(hResults) :
         /\ hResults[i].id = ids[i]
         /\ WellFormedEntry(hResults[i])
         /\ hResults[i].success =
              ~(\E j \in LogIdx : hLog[j].idx = i /\ hLog[j].out \in FailedOut)
    /\ Answered("batch") =>
         /\ Len(hResults) = Len(ids)
         /\ Val(Val(hResponse).results) = hResults
         /\ \A i \in 1..Len(ids) :
              \E j \in LogIdx : hLog[j].idx = i /\ hLog[j].step = "fetch"

\* C5 witness: the first identifier failed in its render, the second succeeded
C5_Witness ==
  /\ IsBatch /\ Answered("batch")
  /\ Len(hResults) = 2
  /\ ~hResults[1].success /\ hResults[2].success
  /\ \E j \in LogIdx : hLog[j].idx = 1 /\ hLog[j].step = "render" /\ hLog[j].out = "fail"

RenderSucceeded == \E i \in LogIdx : hLog[i].step = "render" /\ hLog[i].out = "ok"

\* C6: in single conversion, once the render succeeded the caller gets the
\* render result (invoice data, PDF filename and download URL) even when the
\* complete step, its metafield write or the email step failed.
C6_RenderResultReturned ==
  (IsSingle /\ hpc = "responded" /\ RenderSucceeded) =>
    /\ Val(hResponse).kind = "invoice"
    /\ IsSome(Val(hResponse).invoice)
    /\ IsSome(Val(hResponse).pdf)
    /\ IsSome(Val(hResponse).downloadUrl)

StepRank(step) ==
  CASE step = "fetch" -> 1
    [] step = "image" -> 2
    [] step = "render" -> 3
    [] step = "complete" -> 4
    [] step = "metafield" -> 5
    [] step = "email" -> 6

\* C7: in single conversion the steps run in the order fetch, (image lookups),
\* render, complete, (metafield), email; a step is issued only after every
\* earlier step has finished, successfully for all but the image lookups;
\* complete and email are issued only when requested and only after a
\* successful render.
C7_SingleOrder ==
  IsSingle =>
    /\ \A i \in LogIdx :
         i < Len(hLog) =>
           /\ hLog[i].out # "pending"
           /\ hLog[i].step # "image" => hLog[i].out = "ok"
           /\ StepRank(hLog[i].step) <= StepRank(hLog[i + 1].step)
           /\ hLog[i].step # "image" =>
                StepRank(hLog[i].step) < StepRank(hLog[i + 1].step)
    /\ (Len(hLog) > 0 => hLog[1].step = "fetch")
    /\ \A j \in LogIdx :
         /\ hLog[j].step \in {"complete", "metafield"} => Val(hReq).completeOrder
         /\ hLog[j].step = "email" => Val(hReq).sendEmail
         /\ hLog[j].step \in {"complete", "metafield", "email"} =>
              \E i \in 1..(j - 1) : hLog[i].step = "render" /\ hLog[i].out = "ok"

\* C7 witness: all of fetch, render, complete and email were issued
C7_Witness ==
  /\ IsSingle
  /\ \E i \in LogIdx : hLog[i].step = "complete"
  /\ \E i \in LogIdx : hLog[i].step = "email" /\ hLog[i].out = "ok"

\* C8: in single conversion, when the quote cannot be fetched the request is
\* answered with an error response and nothing else happens: no file of the
\* invoice directory changes and no render, complete or email is issued.
C8_FetchFailureStops ==
  [][ (IsSingle' /\ hLog'[1].out \in FailedOut) =>
        /\ files' = files
        /\ hpc' = "responded"
        /\ Val(hResponse').kind \in {"error", "notfound"}
        /\ Val(hResponse').status >= 400
        /\ Len(hLog') = 1 ]_vars

\* C8 witness: a fetch that rejected, answered by the error middleware
C8_Witness ==
  /\ IsSingle /\ hpc = "responded"
  /\ hLog[1].out = "fail"
  /\ Val(hResponse).status = 500

----------------------------------------------------------------------------
(* Properties of the invoice functions (SpecInv) *)

\* C9: the Invoice record satisfies total = subtotal + shipping + tax -
\* discount on its own fields, whatever total_price, total_tax and the
\* discount fields of the quote are.
C9_TotalIsSum ==
  IsSome(invoice) =>
    LET inv == Val(invoice) IN
      inv.total = inv.subtotal + inv.shippingCost + inv.taxAmount - inv.discount

\* C10: generateInvoiceNumber gives the same string each time it is asked for
\* an identifier, and distinct identifiers get distinct numbers and distinct
\* PDF filenames.
C10_NumberInjective ==
  [][ /\ \A i \in DOMAIN numbers \cap DOMAIN numbers' : numbers'[i] = numbers[i]
      /\ \A i \in DOMAIN numbers' : \A j \in DOMAIN numbers' :
           i # j => /\ numbers'[i] # numbers'[j]
                    /\ PdfFilename(numbers'[i]) # PdfFilename(numbers'[j]) ]_vars

\* C10 witness: two identifiers with the same last digit have been numbered
C10_Witness ==
  \E i \in DOMAIN numbers : \E j \in DOMAIN numbers :
    i # j /\ i % 10 = j % 10


----------------------------------------------------------------------------
(* Claims about the invoice directory, under SpecServer                   *)

InvoicePath(id) == PdfFilename(generateInvoiceNumber(envPrefix, id))

Rendered(fs, id) == InvoicePath(id) \in DOMAIN fs /\ fs[InvoicePath(id)].finished

\* C11: once generatePDF has completed for an invoice, getInvoice returns the
\* path of that file, the download handler answers with it, and no later
\* step of any request (conversion, batch run, failed complete or email step)
\* makes a path that getInvoice returned disappear.
C11_RenderedStaysRetrievable ==
  [][\A id \in ConvIds :
       LET number == generateInvoiceNumber(envPrefix, id) IN
         /\ Rendered(files', id) => getInvoice(files', number) = Some(InvoicePath(id))
         /\ IsSome(getInvoice(files, number)) =>
              getInvoice(files', number) = getInvoice(files, number)
         /\ (/\ served' # served
             /\ Val(hReq').kind = "download" /\ Val(hReq').ids = <<id>>
             /\ Rendered(files, id)) =>
              Val(hResponse') = DownloadResponse(InvoicePath(id))]_vars

\* a second request failed at its complete step, and the invoice rendered by
\* the first request is still there
C11_Witness ==
  /\ served = 2
  /\ hpc = "responded"
  /\ Val(hResponse).error = Some("complete failed")
  /\ Rendered(files, 1)
  /\ getInvoice(files, generateInvoiceNumber(envPrefix, 1)) = Some(InvoicePath(1))

\* C12: a finished invoice file is never changed afterwards, whatever request
\* is served next, a new conversion of the same quote included.
C12_FileImmutable ==
  [][\A n \in DOMAIN files :
       files[n].finished => (n \in DOMAIN files' /\ files'[n] = files[n])]_vars

\* C13: for a quote that was fetched, generate-email answers 200 with a
\* non-empty body, and the body is the template whenever the provider was not
\* called or its call did not yield a text.
C13_EmailNeverEmpty ==
  (IsEmail /\ hpc = "responded" /\ IsSome(hQuote)) =>
    /\ Val(hResponse).status = 200
    /\ IsSome(Val(hResponse).body)
    /\ Len(Val(Val(hResponse).body)) > 0
    /\ (hLog[Len(hLog)].step # "provider" \/ hLog[Len(hLog)].out = "fail") =>
         Val(hResponse).body = Some(TemplateFor(Val(hQuote)))

\* The request that was just answered found no draft_order for its quote.
QuoteAbsent ==
  /\ Len(hLog) > 0
  /\ hLog[Len(hLog)].step = "fetch"
  /\ hLog[Len(hLog)].out = "empty"

----------------------------------------------------------------------------
(* Failed data calls (SpecClient) *)

\* The step in which a data call of request p fails with something else than
\* the first 401 of the request: any other error, or a 401 on the retry.
FailedDataStep(p) ==
  LET h == call[p].hist
      g == call'[p].hist
  IN /\ call[p].op = "request" /\ call[p].pc = "data"
     /\ Len(g) > Len(h)
     /\ \/ g[Len(h) + 1] = "err"
        \/ g[Len(h) + 1] = "401" /\ Has401(h)

\* C15: a data call that fails with anything but a first 401 ends the client
\* request with an error in that very step: no further data call or token
\* exchange is issued, the cached token and its expiry stay as they are, and
\* a request that saw no 401 has made exactly one data call.
C15_FailureNotRetried ==
  [][\A p \in Procs :
       (call'[p] # call[p] /\ FailedDataStep(p)) =>
         /\ call'[p].out = "error"
         /\ call'[p].pc = "idle"
         /\ Len(call'[p].hist) = Len(call[p].hist) + 1
         /\ accessToken' = accessToken
         /\ tokenExpiry' = tokenExpiry
         /\ ~Has401(call[p].hist) => Count(call'[p].hist, "d") = 1]_vars

\* a request failed on its only data call and the token is still cached
C15_Witness ==
  \E p \in Requests :
    /\ call[p].out = "error"
    /\ call[p].hist[Len(call[p].hist)] = "err"
    /\ Count(call[p].hist, "d") = 1
    /\ accessToken # 0

----------------------------------------------------------------------------
(* Listings (SpecList) *)

RECURSIVE Concat(_)
Concat(pages) ==
  IF Len(pages) = 0 THEN <<>>
  ELSE Concat(SubSeq(pages, 1, Len(pages) - 1)) \o RecordsOf(pages[Len(pages)])

\* The records of the pages this call has received, in the order received.
Fetched == Concat(lPages)

HasRelNext(link) == IsSome(link) /\ \E i \in 1..Len(Val(link)) : Val(link)[i].rel = "next"

\* s and t hold the same records, each as often.
SameRecords(s, t) ==
  /\ Len(s) = Len(t)
  /\ \A i \in 1..Len(t) : Count(s, t[i]) = Count(t, t[i])

ListReturned == lpc = "done" /\ IsSome(lOut) /\ Val(lOut).ok

\* C16: getDraftOrders and getProducts fetch at most two pages; page 2 is
\* asked for exactly when the response of page 1 carries a rel="next" link;
\* what they return holds the records of the pages fetched, each once (for
\* getProducts in the order received).
C16_PagingCeiling ==
  /\ Len(lPages) <= 2
  /\ (lpc = "page2" \/ Len(lPages) = 2) => HasRelNext(lPages[1].link)
  /\ (ListReturned /\ lOp \in {"getDraftOrders", "getProducts"} /\ Len(lPages) > 0) =>
       /\ Len(lPages) = 1 => ~HasRelNext(lPages[1].link)
       /\ SameRecords(Val(lOut).list, Fetched)
       /\ lOp = "getProducts" => Val(lOut).list = Fetched

\* getDraftOrders stopped at the ceiling: page 2 pointed to a third page
C16_Witness ==
  /\ ListReturned
  /\ lOp = "getDraftOrders"
  /\ Len(lPages) = 2
  /\ HasRelNext(lPages[2].link)
  /\ Len(RecordsOf(lPages[1])) > 0
  /\ Len(RecordsOf(lPages[2])) > 0
  /\ Len(Val(lOut).list) = Len(RecordsOf(lPages[1])) + Len(RecordsOf(lPages[2]))

NewestFirst(s) ==
  \A i \in 1..Len(s) : \A j \in i..Len(s) : s[i].created_at >= s[j].created_at

\* The limit the caller of the route asked for, as a number.
AskedLimit ==
  IF IsSome(lLimit) THEN CHOOSE n \in 0..MaxLimit : NatToString(n) = Val(lLimit)
  ELSE DefaultLimit

\* C17: getDraftOrders returns the fetched quotes, each once, newest first;
\* GET /draft-orders returns the first `limit` of them in that order: no
\* quote left out is newer than one returned.
C17_NewestFirst ==
  ListReturned =>
    /\ lOp = "getDraftOrders" =>
         /\ NewestFirst(Val(lOut).list)
         /\ SameRecords(Val(lOut).list, Fetched)
    /\ lOp = "route" =>
         LET list == Val(lOut).list IN
           /\ NewestFirst(list)
           /\ Len(list) = IF AskedLimit < Len(Fetched) THEN AskedLimit ELSE Len(Fetched)
           /\ \A i \in 1..Len(list) : Count(list, list[i]) = 1 /\ Count(Fetched, list[i]) = 1
           /\ \A k \in 1..Len(Fetched) :
                Count(list, Fetched[k]) = 0 =>
                  \A i \in 1..Len(list) : list[i].created_at >= Fetched[k].created_at
           /\ Val(lOut).totalCount = Len(Fetched)

\* the route cut the list to one quote, the newest, which came on page 2
C17_Witness ==
  /\ ListReturned
  /\ lOp = "route"
  /\ AskedLimit = 1
  /\ Len(Fetched) > 2
  /\ Len(Val(lOut).list) = 1
  /\ Val(lOut).list[1].id > MaxPageLen
  /\ \E k \in 1..Len(Fetched) : Fetched[k].created_at < Val(lOut).list[1].created_at

----------------------------------------------------------------------------
(* The totals block of the rendered invoice (SpecInv) *)

LinesOf(label) ==
  {i \in 1..Len(Val(totals)) : Val(totals)[i].label = label}

\* C18: the totals block has one shipping line; it reads 'Free' when the
\* invoice's shipping cost is 0 and the formatted amount when it is positive.
C18_ShippingLine ==
  IsSome(totals) =>
    /\ Cardinality(LinesOf("Shipping")) = 1
    /\ \A i \in LinesOf("Shipping") :
         LET cost == Val(invoice).shippingCost IN
           /\ cost = 0 => Val(totals)[i].text = <<"F", "r", "e", "e">>
           /\ cost > 0 => Val(totals)[i].text = formatCurrency(cost)

\* a quote whose shipping line is priced "0.00" was rendered with 'Free'
C18_Witness ==
  /\ IsSome(totals)
  /\ IsSome(Val(draftOrder).shipping_line)
  /\ Val(invoice).shippingCost = 0
  /\ \E i \in LinesOf("Shipping") : Val(totals)[i].text = <<"F", "r", "e", "e">>

\* C19: the totals block has a discount line exactly when the invoice's
\* discount is greater than 0 and a tax line exactly when its tax is greater
\* than 0.
C19_DiscountTaxLines ==
  IsSome(totals) =>
    /\ LinesOf("Discount") # {} <=> Val(invoice).discount > 0
    /\ LinesOf("Tax") # {} <=> Val(invoice).taxAmount > 0

----------------------------------------------------------------------------
(* Image downloads inside the render (SpecServer) *)

\* C20: a failed image download or product-image lookup never keeps the
\* render from completing: generatePDF is never left waiting for a download
\* that failed, and every finished file has its header drawn, as the image
\* or as the text fallback.
C20_DownloadFailureContained ==
  /\ hpc # "stalled"
  /\ \A n \in DOMAIN files : files[n].finished => files[n].header \in {"image", "text"}
----------------------------------------------------------------------------
(* Properties of the shared service (SpecShared) *)

\* The operation caller p is making, or has made, in the step.
OpOf(p) == IF call[p].op = "none" THEN call'[p].op ELSE call[p].op

\* The step belongs to the operation of caller p.
StepOf(p) == call'[p] # call[p]

\* The step in which the operation of caller p throws.
ThrowStep(p) == call[p].out # "error" /\ call'[p].out = "error"

\* C21: a client operation modifies no local state but the token cache and
\* the product cache.  Every operation other than getProducts leaves the
\* product cache and its expiry unchanged and goes to the network on every
\* call; a getProducts call that fails leaves the product cache and its
\* expiry unchanged.
C21_ClientFrame ==
  [][\A p \in Procs :
       StepOf(p) =>
         /\ UNCHANGED <<crev, cops, webhooks, reg, verified,
                        expiresIn, invVars, convVars, listVars>>
         /\ OpOf(p) = "request" =>
              UNCHANGED <<productsCache, productsCacheExpiry>>
         /\ StartStep(p) =>
              call'[p].net /\ call'[p].pc \in {"token", "data"}
         /\ (ThrowStep(p) /\ OpOf(p) = "getProducts") =>
              UNCHANGED <<productsCache, productsCacheExpiry>>]_vars

\* C21 witness: a getProducts call that began with an expired list in the
\* cache has gone to the network and failed, and the list is still cached.
C21_Witness ==
  /\ IsSome(productsCache)
  /\ productsCacheExpiry # 0
  /\ \E i \in Calls : ~done[i].ok /\ done[i].stale /\ done[i].net

\* Calls i and j of getProducts both fetched the catalog, j having begun
\* before i ended.
Overlapping(i, j) ==
  /\ i < j
  /\ done[j].seen < i
  /\ done[i].ok /\ done[i].net
  /\ done[j].ok /\ done[j].net

\* C22: when requests interleave on the shared service, a race on the token
\* or on the product cache costs redundant fetches only.  Every data call in
\* flight carries a token that a completed exchange returned; a token in the
\* cache stands with the expiry its own exchange stored; the product cache,
\* when set, holds the whole list of one getProducts fetch.
C22_RacesAreRedundantFetches ==
  /\ \A p \in Procs :
       call[p].pc = "data" => call[p].tok \in exchanges.tokens
  /\ accessToken # 0 => (tokenExpiry # 0 /\ exchanges.stored = accessToken)
  /\ IsSome(productsCache) =>
       \E i \in Calls :
         done[i].ok /\ done[i].net /\ done[i].list = Val(productsCache)

\* C22 witness: two getProducts calls raced: both found no token and no
\* list, both exchanged a token and fetched the catalog, and both stored.
C22_Witness ==
  /\ Cardinality(exchanges.tokens) > 1
  /\ accessToken # 0
  /\ IsSome(productsCache)
  /\ \E i \in Calls, j \in Calls : Overlapping(i, j) /\ done[i].stored /\ done[j].stored

----------------------------------------------------------------------------
(* Properties of the batch loop (SpecConv) *)

\* The entries of the log that belong to the identifier at index i.
StepsOf(i) == {hLog[k].step : k \in {m \in LogIdx : hLog[m].idx = i}}

\* C23: one batch request processes its identifiers one after the other.
\* The fetch of an identifier is issued only when every step of the
\* identifiers before it has finished or failed, so at most one remote call
\* or render of the request is in flight: the last one issued.
C23_BatchSequential ==
  IsBatch =>
    /\ \A k \in LogIdx : hLog[k].out = "pending" => k = Len(hLog)
    /\ \A k \in LogIdx, m \in LogIdx : k < m => hLog[k].idx <= hLog[m].idx
    /\ \A m \in LogIdx :
         hLog[m].step = "fetch" =>
           \A k \in LogIdx :
             k < m => hLog[k].idx < hLog[m].idx /\ hLog[k].out # "pending"

\* C23 witness: the fetch of the second identifier is in flight, after the
\* fetch, render, complete and email of the first have all been made.
C23_Witness ==
  /\ IsBatch
  /\ Len(hLog) = 5
  /\ StepsOf(1) = {"fetch", "render", "complete", "email"}
  /\ hLog[5] = [step |-> "fetch", idx |-> 2, id |-> Val(hReq).ids[2],
                out |-> "pending"]

----------------------------------------------------------------------------
(* Properties of the page layout (SpecLayout) *)

\* The rows of the line-item table drawn so far, in the order drawn.
Rows == SelectSeq(doc.placed, LAMBDA b : b.block = "row")

\* The rows drawn on page p.
RowsOn(p) == {k \in 1..Len(Rows) : Rows[k].page = p}

\* The cursor and the page after the row r, as the claim states them.
CursorAfter(r) ==
  IF r.y + 40 > 600 THEN [page |-> r.page + 1, y |-> 50]
                    ELSE [page |-> r.page, y |-> r.y + 40]

\* C24: generatePDF draws every line item as exactly one table row, in order,
\* each row at a y of at most 600.  After a row the cursor advances by 40 and,
\* exactly when it then exceeds 600, a new page is started with the cursor at
\* the top margin 50: the first page holds 9 rows, each following page 14.
C24_RowsAndPages ==
  /\ Len(Rows) = doc.i
  /\ doc.pc = "done" => Len(Rows) = doc.items
  /\ \A k \in 1..Len(Rows) :
       /\ Rows[k].item = k
       /\ Rows[k].y <= 600
       /\ k = 1 => Rows[k].page = 1
       /\ k > 1 => [page |-> Rows[k].page, y |-> Rows[k].y] = CursorAfter(Rows[k - 1])
  /\ doc.i > 0 =>
       [page |-> doc.page, y |-> doc.y] = CursorAfter(Rows[doc.i])
  /\ \A p \in 1..doc.page :
       /\ Cardinality(RowsOn(p)) <= (IF p = 1 THEN 9 ELSE 14)
       /\ p < doc.page => Cardinality(RowsOn(p)) = (IF p = 1 THEN 9 ELSE 14)

\* C24 witness: an invoice of 24 line items is laid out: 9 rows on the first
\* page, 14 on the second, and the last row at the top of the third.
C24_Witness ==
  /\ doc.pc = "done"
  /\ doc.items = 24
  /\ Len(Rows) = 24
  /\ Rows[9].page = 1 /\ Rows[10] = Placed("row", 10, 2, 50)
  /\ Rows[23].page = 2 /\ Rows[24] = Placed("row", 24, 3, 50)

\* What generatePDF has drawn after the line-item table.
AfterRows == SelectSeq(doc.placed, LAMBDA b : b.block \notin {"tableHeader", "row"})

\* Some block of the kind has been drawn.
Drawn(block) == \E k \in 1..Len(doc.placed) : doc.placed[k].block = block

\* C25: whatever the number of line items and whether or not the discount
\* and tax lines are present, every block drawn after the line-item table
\* (totals, notes, signoff, QR code, payment strip, footer) is placed at a y
\* inside the 792-point page, and the payment strip and the contact footer
\* are drawn on every invoice.
C25_BlocksInsidePage ==
  doc.pc = "done" =>
    /\ \A k \in 1..Len(AfterRows) : AfterRows[k].y >= 0 /\ AfterRows[k].y < 792
    /\ Drawn("strip")
    /\ Drawn("footer")

----------------------------------------------------------------------------
(* Properties of the conversion response (SpecConv) *)

\* The request issued a remote invoice-email send and the send succeeded.
EmailWasSent == \E k \in LogIdx : hLog[k].step = "email" /\ hLog[k].out = "ok"

\* C26: in the response of a single conversion, emailSent is true exactly
\* when a remote invoice-email send was issued for the quote and succeeded;
\* it is false when no send was attempted, in particular when sendEmail was
\* asked for and the quote has no customer email.
C26_EmailSentMeansSent ==
  (IsSingle /\ Answered("invoice")) =>
    (Val(hResponse).emailSent = Some(TRUE) <=> EmailWasSent)

----------------------------------------------------------------------------
(* Properties of registerWebhooks (SpecHooks) *)

Statuses(r) == {reg[r].results[i].status : i \in 1..Len(reg[r].results)}

\* The results of run r so far name the first topics of the list, in order,
\* and say 'exists' exactly for the topics the listing showed.
ResultsInOrder(r) ==
  \A i \in 1..Len(reg[r].results) :
    /\ i <= Len(Topics)
    /\ reg[r].results[i].topic = Topics[i]
    /\ reg[r].results[i].status \in {"exists", "created", "error"}
    /\ reg[r].results[i].status = "exists" <=> Topics[i] \in reg[r].existing

\* C27: registerWebhooks issues a create call only for default topics absent
\* from the listing it fetched and returns exactly one result per default
\* topic, 'exists', 'created' or 'error'; a create that fails does not stop
\* the remaining topics; a run made after a fully successful run issues no
\* create call and reports every topic as 'exists'.
C27_RegisterIdempotent ==
  \A r \in Runs :
    /\ ResultsInOrder(r)
    /\ reg[r].pc = "create" =>
         /\ Topics[reg[r].k] \notin reg[r].existing
         /\ Len(reg[r].results) = reg[r].k - 1
    /\ reg[r].pc = "done" => Len(reg[r].results) = Len(Topics)
    /\ reg[r].after =>
         /\ reg[r].pc # "create"
         /\ Statuses(r) \subseteq {"exists"}

\* C27 witness: a run created topics and returned with no error; the other
\* run, made after it, has returned four results, all 'exists'.
C27_Witness ==
  \E r \in Runs, o \in Runs :
    /\ r # o
    /\ reg[r].pc = "done"
    /\ "created" \in Statuses(r)
    /\ "error" \notin Statuses(r)
    /\ reg[o].after
    /\ reg[o].pc = "done"
    /\ Len(reg[o].results) = 4
    /\ Statuses(o) = {"exists"}

\* The runs in whose results topic t is 'created'.
CreatedBy(t) ==
  {r \in Runs : \E i \in 1..Len(reg[r].results) :
                  reg[r].results[i] = [topic |-> t, status |-> "created"]}

\* C28: no default topic is created twice on the platform, also when the
\* startup run and a run through POST /webhooks/register interleave: a topic
\* both runs saw as absent is created by at most one of them.
C28_CreatedAtMostOnce ==
  \A t \in TopicSet : Cardinality(CreatedBy(t)) <= 1

----------------------------------------------------------------------------
(* Properties of verifyWebhookSignature (SpecVerify) *)

\* C29: verifyWebhookSignature returns true exactly when the header equals
\* the base64 HMAC-SHA256 of the body under the shared secret, and returns
\* false, without throwing, for every other header: a missing header and a
\* header of another length than the computed signature included.
C29_VerifyNeverThrows ==
  IsSome(verified) =>
    LET v == Val(verified) IN
      /\ v.out = "true" <=> v.header = Some(Hmac(v.body))
      /\ v.out # "true" => v.out = "false"

----------------------------------------------------------------------------
(* Properties of the asset cache (SpecAssets) *)

\* C30: the file under an image key exists only after a download that
\* completed with the full image: with no download in flight the file is
\* absent or the image, a call made then never hands the render another
\* content, and with the image there a call asks the network for nothing.
C30_CacheHoldsOnlyFullImages ==
  /\ assets.wire = "none" => assets.file \in {"none", "image"}
  /\ \A i \in 1..Len(assets.log) :
       assets.log[i].wire = "none" =>
         assets.log[i].used \in {"placeholder", "image"}

============================================================================
